---- MODULE Spec2Model ----
(***************************************************************************)
(* Trigger scheduling and recurrence engine of OpenPoke                    *)
(* (server/services/triggers.py): the TriggerStore rows, the              *)
(* TriggerService operations, and a poller that holds the records a        *)
(* get_due_triggers call returned.                                         *)
(*                                                                         *)
(* Time is counted in whole hours since an epoch (UTC instants are         *)
(* integers).  A timezone is an IANA key with a fixed UTC offset in hours; *)
(* the zones of the model have no daylight-saving transitions.  A          *)
(* recurrence string is a sequence of lines; a rule body is                *)
(* FREQ=HOURLY;INTERVAL=i[;COUNT=c].  Python's None is the empty sequence  *)
(* and a present value v is <<v>>.                                         *)
(***************************************************************************)
EXTENDS Integers, Sequences, FiniteSets, TLC

VARIABLES
    rows,      \* the triggers table: id -> row
    nextId,    \* the AUTOINCREMENT counter (sqlite_sequence): next id to assign
    now,       \* the wall clock, _utc_now()
    polled,    \* the records the poller holds from its last get_due_triggers
    upd,       \* update_trigger calls between their fetch_one and their store.update
    fired,     \* id -> fired_at of the last schedule_next_occurrence call for it
    lock,      \* TriggerStore._lock: TRUE while a caller holds it
    ops        \* caller -> the store operation it is in, statement by statement

vars == <<rows, nextId, now, polled, upd, fired, lock, ops>>

----------------------------------------------------------------------------
(* Bounds of the model *)

MaxTime == 2
MaxId == 1
MaxInterval == 2
MaxListed == 4

----------------------------------------------------------------------------
(* Optional values *)

None == <<>>
Some(x) == <<x>>
Truthy(o) == o # None /\ o[1] # ""

DEFAULT_STATUS == "active"
VALID_STATUSES == {"active", "paused", "completed"}

(* ZoneInfo(key): the zones the tz database knows, with their UTC offsets.  *)
KnownZones == {"UTC", "Africa/Abidjan", "Africa/Lagos"}
Offset(z) == IF z = "Africa/Lagos" THEN 1 ELSE 0

(* str.lower() on the status strings callers pass *)
Lower(s) ==
    CASE s = "PAUSED" -> "paused"
      [] s = "Completed" -> "completed"
      [] OTHER -> s

(* an unrecognized status pauses the trigger *)
NormalizeStatusPausesUnknown(status) ==
    IF ~Truthy(status) THEN DEFAULT_STATUS
    ELSE IF Lower(status[1]) \notin VALID_STATUSES THEN "paused"
    ELSE Lower(status[1])

_normalize_status(status) ==
    IF ~Truthy(status) THEN DEFAULT_STATUS
    ELSE IF Lower(status[1]) \notin VALID_STATUSES THEN DEFAULT_STATUS
    ELSE Lower(status[1])

_resolve_timezone(timezone_name) ==
    IF Truthy(timezone_name) /\ timezone_name[1] \in KnownZones
    THEN timezone_name[1]
    ELSE "UTC"

(* A timestamp string: "aware" (an instant, "...Z" or with an offset),    *)
(* "naive" (wall-clock digits, read in tz) or "empty" (the string "").    *)
Stamp(kind, t) == [kind |-> kind, t |-> t]
EmptyStamp == Stamp("empty", 0)

(* the instant a timestamp string denotes *)
_parse_datetime(timestamp, tz) ==
    IF timestamp.kind = "naive" THEN timestamp.t - Offset(tz) ELSE timestamp.t

_coerce_start_datetime(start_time, tz, fallback) ==
    IF start_time # None /\ start_time[1] # EmptyStamp
    THEN _parse_datetime(start_time[1], tz)
    ELSE fallback

----------------------------------------------------------------------------
(* Recurrence strings *)

DtLine(z, t) == [k |-> "DTSTART", tzid |-> z, t |-> t, i |-> 0, c |-> 0]
RuleLine(i, c) == [k |-> "RRULE", tzid |-> "", t |-> 0, i |-> i, c |-> c]
BareLine(i, c) == [k |-> "BARE", tzid |-> "", t |-> 0, i |-> i, c |-> c]
BlankLine == [k |-> "BLANK", tzid |-> "", t |-> 0, i |-> 0, c |-> 0]
(* a rule line whose name is written in lower case, "rrule:freq=..." *)
LowerRuleLine(i, c) == [k |-> "rrule", tzid |-> "", t |-> 0, i |-> i, c |-> c]

(* dt_line of _build_recurrence: UTC form when the offset is zero, else   *)
(* the zone-qualified wall time.                                          *)
DtStartLine(start, tz) ==
    IF Offset(tz) = 0 THEN DtLine("Z", start)
    ELSE DtLine(tz, start + Offset(tz))

(* a recurrence string that is neither None nor "" *)
RuleGiven(recurrence_rule) == recurrence_rule # None /\ recurrence_rule[1] # <<>>

IsRuleText(line) == line.k \notin {"DTSTART", "BLANK"}
(* lines 404-405: the test upper-cases the line, the line is kept as written *)
PrefixRule(line) ==
    IF line.k \in {"RRULE", "rrule"} THEN line ELSE RuleLine(line.i, line.c)

(* a string without a rule line is stored with its new DTSTART line *)
BuildRecurrenceKeepsEmptyRule(recurrence_rule, start, tz) ==
    IF ~RuleGiven(recurrence_rule)
    THEN [raised |-> FALSE, val |-> None]
    ELSE [raised |-> FALSE,
          val |-> Some(<<DtStartLine(start, tz)>>
                       \o SelectSeq(recurrence_rule[1], IsRuleText))]

(* the DTSTART lines of the input are kept after the new one *)
BuildRecurrenceKeepsCallerDtstart(recurrence_rule, start, tz) ==
    IF ~RuleGiven(recurrence_rule)
    THEN [raised |-> FALSE, val |-> None]
    ELSE LET filtered == SelectSeq(recurrence_rule[1], IsRuleText)
             given == SelectSeq(recurrence_rule[1], LAMBDA l : l.k = "DTSTART")
         IN IF filtered = <<>>
            THEN [raised |-> TRUE, val |-> None]
            ELSE [raised |-> FALSE,
                  val |-> Some(<<DtStartLine(start, tz)>> \o given
                               \o <<PrefixRule(Head(filtered))>> \o Tail(filtered))]

(* a bare rule body is stored as written, without the RRULE: prefix *)
BuildRecurrenceKeepsBareBody(recurrence_rule, start, tz) ==
    IF ~RuleGiven(recurrence_rule)
    THEN [raised |-> FALSE, val |-> None]
    ELSE LET filtered == SelectSeq(recurrence_rule[1], IsRuleText)
         IN IF filtered = <<>>
            THEN [raised |-> TRUE, val |-> None]
            ELSE [raised |-> FALSE,
                  val |-> Some(<<DtStartLine(start, tz)>> \o filtered)]

(* [raised, val]: raised when no rule line is left after the DTSTART      *)
(* lines are removed.                                                     *)
_build_recurrence(recurrence_rule, start, tz) ==
    IF ~RuleGiven(recurrence_rule)
    THEN [raised |-> FALSE, val |-> None]
    ELSE LET filtered == SelectSeq(recurrence_rule[1], IsRuleText)
         IN IF filtered = <<>>
            THEN [raised |-> TRUE, val |-> None]
            ELSE [raised |-> FALSE,
                  val |-> Some(<<DtStartLine(start, tz), PrefixRule(Head(filtered))>>
                               \o Tail(filtered))]

(* rrulestr: the instant of the DTSTART line and the occurrences of the   *)
(* rule lines (a line without a name is read as an RRULE; the string is   *)
(* upper-cased before it is parsed, so a lower-case name is read alike).  *)
DtLineInstant(line) == IF line.tzid = "Z" THEN line.t ELSE line.t - Offset(line.tzid)

DtStartOf(lines) ==
    LET ds == SelectSeq(lines, LAMBDA l : l.k = "DTSTART")
    IN DtLineInstant(ds[Len(ds)])

Max(a, b) == IF a >= b THEN a ELSE b

(* occurrences of the rule up to the first one after t *)
OccurrencesUpTo(lines, t) ==
    LET d == DtStartOf(lines)
        rs == {j \in 1..Len(lines) : IsRuleText(lines[j])}
    IN UNION {
         {d + n * lines[j].i :
            n \in 0..(IF lines[j].c > 0
                      THEN lines[j].c - 1
                      ELSE (Max(t - d, 0) \div lines[j].i) + 1)} : j \in rs}

(* rule.after(t, inc) *)
After(lines, t, inc) ==
    LET cand == {o \in OccurrencesUpTo(lines, t) : o > t \/ (inc /\ o = t)}
    IN IF cand = {} THEN None
       ELSE Some(CHOOSE o \in cand : \A p \in cand : o <= p)

(* a start in the past is replaced by the time of the call *)
ComputeNextFireClampsToNow(recurrence_rule, start, tz, t) ==
    IF RuleGiven(recurrence_rule)
    THEN LET b == _build_recurrence(recurrence_rule, start, tz)
         IN IF b.raised THEN [raised |-> TRUE, val |-> None]
            ELSE [raised |-> FALSE, val |-> After(b.val[1], t, TRUE)]
    ELSE [raised |-> FALSE, val |-> Some(Max(start, t))]

(* an occurrence at the time of the call is passed over *)
ComputeNextFireExclusive(recurrence_rule, start, tz, t) ==
    IF RuleGiven(recurrence_rule)
    THEN LET b == _build_recurrence(recurrence_rule, start, tz)
         IN IF b.raised THEN [raised |-> TRUE, val |-> None]
            ELSE [raised |-> FALSE, val |-> After(b.val[1], t, FALSE)]
    ELSE [raised |-> FALSE, val |-> Some(start)]

(* [raised, val]: the first fire of a new or rescheduled trigger *)
_compute_next_fire(recurrence_rule, start, tz, t) ==
    IF RuleGiven(recurrence_rule)
    THEN LET b == _build_recurrence(recurrence_rule, start, tz)
         IN IF b.raised THEN [raised |-> TRUE, val |-> None]
            ELSE [raised |-> FALSE, val |-> After(b.val[1], t, TRUE)]
    ELSE [raised |-> FALSE, val |-> Some(start)]

(* the occurrence at fired_at itself counts as the next one *)
ComputeNextAfterInclusive(stored_recurrence, fired_at, tz) ==
    After(stored_recurrence, fired_at, TRUE)

(* the rule is read from its start, whatever fired_at is *)
ComputeNextFromStart(stored_recurrence, fired_at, tz) ==
    After(stored_recurrence, DtStartOf(stored_recurrence), TRUE)

_compute_next_after(stored_recurrence, fired_at, tz) ==
    After(stored_recurrence, fired_at, FALSE)

----------------------------------------------------------------------------
(* TriggerStore *)

NoRows == [i \in {} |-> i]
NoFields == [f \in {} |-> f]

(* the row is looked up by its id alone *)
MatchesIdOnly(table, trigger_id, agent_name) == trigger_id \in DOMAIN table

Matches(table, trigger_id, agent_name) ==
    trigger_id \in DOMAIN table /\ table[trigger_id].agent_name = agent_name

(* the row is read whoever asks for it *)
FetchOneById(table, trigger_id, agent_name) ==
    IF trigger_id \in DOMAIN table THEN Some(table[trigger_id]) ELSE None

fetch_one(table, trigger_id, agent_name) ==
    IF Matches(table, trigger_id, agent_name) THEN Some(table[trigger_id]) ELSE None

(* [updated, table]: the partial UPDATE, which always stamps updated_at *)
(* the UPDATE without the id in its WHERE: every row of the agent *)
StoreUpdateAllOfAgent(table, trigger_id, agent_name, fields, t) ==
    IF DOMAIN fields = {} THEN [updated |-> FALSE, table |-> table]
    ELSE IF Matches(table, trigger_id, agent_name)
    THEN [updated |-> TRUE,
          table |-> [i \in DOMAIN table |->
                        IF table[i].agent_name # agent_name THEN table[i]
                        ELSE [c \in DOMAIN table[i] |->
                                 IF c = "updated_at" THEN t
                                 ELSE IF c \in DOMAIN fields THEN fields[c]
                                 ELSE table[i][c]]]]
    ELSE [updated |-> FALSE, table |-> table]

StoreUpdate(table, trigger_id, agent_name, fields, t) ==
    IF DOMAIN fields = {} THEN [updated |-> FALSE, table |-> table]
    ELSE IF Matches(table, trigger_id, agent_name)
    THEN [updated |-> TRUE,
          table |-> [table EXCEPT ![trigger_id] =
                        [c \in DOMAIN @ |->
                            IF c = "updated_at" THEN t
                            ELSE IF c \in DOMAIN fields THEN fields[c]
                            ELSE @[c]]]]
    ELSE [updated |-> FALSE, table |-> table]

(* The text written for an instant: fixed-width digits, most significant *)
(* first ("YYYY-MM-DDTHH:MM:SSZ", always in UTC).  The rows of the model  *)
(* hold the instants; the comparisons of the SQL are made on the text.    *)
_to_storage_timestamp(moment) == <<moment \div 10, moment % 10>>

(* the <= of SQLite on two TEXT values *)
TextLE(a, b) ==
    \/ a = b
    \/ \E k \in 1..Len(a) :
          /\ k <= Len(b)
          /\ \A j \in 1..(k - 1) : a[j] = b[j]
          /\ a[k] < b[k]
    \/ Len(a) < Len(b) /\ \A j \in 1..Len(a) : a[j] = b[j]

(* ORDER BY next_trigger IS NULL, next_trigger: r1 may come before r2 *)
(* ORDER BY next_trigger alone: SQLite puts the NULLs first *)
InListOrderNullsFirst(r1, r2) ==
    IF r2.next_trigger = None THEN r1.next_trigger = None
    ELSE \/ r1.next_trigger = None
         \/ TextLE(_to_storage_timestamp(r1.next_trigger[1]),
                   _to_storage_timestamp(r2.next_trigger[1]))

InListOrder(r1, r2) ==
    IF r1.next_trigger = None THEN r2.next_trigger = None
    ELSE \/ r2.next_trigger = None
         \/ TextLE(_to_storage_timestamp(r1.next_trigger[1]),
                   _to_storage_timestamp(r2.next_trigger[1]))

(* the lists the SELECT may return: the order of rows with equal keys is  *)
(* not determined                                                         *)
list_for_agent(table, agent_name) ==
    LET ids == {i \in DOMAIN table : table[i].agent_name = agent_name}
        n == Cardinality(ids)
        orders == {g \in [1..n -> ids] :
                     /\ \A j, k \in 1..n : j # k => g[j] # g[k]
                     /\ \A k \in 1..(n - 1) : InListOrder(table[g[k]], table[g[k + 1]])}
    IN {[k \in 1..n |-> table[g[k]]] : g \in orders}

(* every active trigger with a next_trigger is due, whatever the cutoff *)
FetchDueIgnoresCutoff(table, agent_name, before) ==
    {table[i] : i \in {j \in DOMAIN table :
        /\ table[j].status = "active"
        /\ table[j].next_trigger # None
        /\ (Truthy(agent_name) => table[j].agent_name = agent_name[1])}}

(* agent_name: None or "" for no filter *)
(* every trigger that is not completed is polled *)
FetchDueIncludesPaused(table, agent_name, before) ==
    {table[i] : i \in {j \in DOMAIN table :
        /\ table[j].status # "completed"
        /\ table[j].next_trigger # None
        /\ TextLE(_to_storage_timestamp(table[j].next_trigger[1]),
                  _to_storage_timestamp(before))
        /\ (Truthy(agent_name) => table[j].agent_name = agent_name[1])}}

fetch_due(table, agent_name, before) ==
    {table[i] : i \in {j \in DOMAIN table :
        /\ table[j].status = "active"
        /\ table[j].next_trigger # None
        /\ TextLE(_to_storage_timestamp(table[j].next_trigger[1]),
                  _to_storage_timestamp(before))
        /\ (Truthy(agent_name) => table[j].agent_name = agent_name[1])}}

----------------------------------------------------------------------------
(* State *)

Idle == [busy |-> FALSE]
NoOp == [pc |-> "idle"]
Callers == {"c1", "c2"}
Agents == {"agent-a", "agent-b"}
Owners == {"agent-a"}

Init ==
    /\ rows = NoRows
    /\ nextId = 1
    /\ now = 0
    /\ polled = {}
    /\ upd = [c \in Callers |-> Idle]
    /\ fired = NoRows
    /\ lock = FALSE
    /\ ops = [c \in Callers |-> NoOp]

Tick ==
    /\ now < MaxTime
    /\ now' = now + 1
    /\ UNCHANGED <<rows, nextId, polled, upd, fired, lock, ops>>

----------------------------------------------------------------------------
(* TriggerService *)

NewRecord(trigger_id, agent_name, payload, start, next_fire, stored, tz, status, t) ==
    [id |-> trigger_id,
     agent_name |-> agent_name,
     payload |-> payload,
     start_time |-> Some(start),
     next_trigger |-> next_fire,
     recurrence_rule |-> stored,
     timezone |-> tz,
     status |-> _normalize_status(status),
     last_error |-> None,
     created_at |-> t,
     updated_at |-> t]

(* a: [agent_name, payload, recurrence_rule, start_time, timezone_name, status] *)
(* [raised, record]: what create_trigger inserts at time t under id       *)
CreateRecord(trigger_id, a, t) ==
    LET tz == _resolve_timezone(a.timezone_name)
        start == _coerce_start_datetime(a.start_time, tz, t)
        next_fire == _compute_next_fire(a.recurrence_rule, start, tz, t)
        stored == _build_recurrence(a.recurrence_rule, start, tz)
    IN [raised |-> next_fire.raised \/ stored.raised,
        record |-> NewRecord(trigger_id, a.agent_name, a.payload, start, next_fire.val,
                             stored.val, tz, a.status, t)]

(* the table after create_trigger: unchanged when the call raises *)
CreatedTable(table, trigger_id, a, t) ==
    LET c == CreateRecord(trigger_id, a, t)
    IN IF c.raised THEN table ELSE (trigger_id :> c.record) @@ table

create_trigger(a) ==
    /\ rows' = CreatedTable(rows, nextId, a, now)
    /\ nextId' = IF CreateRecord(nextId, a, now).raised THEN nextId ELSE nextId + 1
    /\ UNCHANGED <<now, polled, upd, fired, lock, ops>>

Field(present, name, value) == IF present THEN name :> value ELSE NoFields

(* every update recomputes the schedule *)
ReschedulesAlways(a) == TRUE

(* line 261: the schedule is recomputed when one of the three is given *)
Reschedules(a) ==
    a.recurrence_rule # None \/ a.start_time # None \/ a.timezone_name # None

(* a last_error argument overrides clear_error *)
LastErrorFieldArgumentWins(a) ==
    Field(a.clear_error \/ a.last_error # None, "last_error",
          IF a.last_error # None THEN a.last_error ELSE None)

(* lines 271-274: the last_error entry of the fields to write *)
LastErrorField(a) ==
    Field(a.clear_error \/ a.last_error # None, "last_error",
          IF a.clear_error THEN None ELSE a.last_error)

(* a start_time that is not given is taken to be the time of the call *)
UpdateFieldsFromNow(existing, a, t) ==
    LET tz == _resolve_timezone(IF Truthy(a.timezone_name) THEN a.timezone_name
                                ELSE Some(existing.timezone))
        start == _coerce_start_datetime(a.start_time, tz, t)
        recurrence_to_use == IF a.recurrence_rule # None THEN a.recurrence_rule
                             ELSE existing.recurrence_rule
        next_fire == _compute_next_fire(recurrence_to_use, start, tz, t)
        stored == _build_recurrence(recurrence_to_use, start, tz)
    IN [raised |-> Reschedules(a) /\ (next_fire.raised \/ stored.raised),
        fields |->
            Field(a.payload # None, "payload", a.payload[1])
            @@ Field(a.status # None, "status", _normalize_status(a.status))
            @@ Field(a.start_time # None, "start_time", Some(start))
            @@ Field(a.timezone_name # None, "timezone", tz)
            @@ Field(Reschedules(a), "next_trigger", next_fire.val)
            @@ Field(Reschedules(a), "recurrence_rule", stored.val)
            @@ LastErrorField(a)]

(* update_trigger between its fetch_one and its store.update:              *)
(* [raised, fields] for the record read and the arguments                  *)
(* a: [payload, recurrence_rule, start_time, timezone_name, status,        *)
(*     last_error, clear_error]                                            *)
UpdateFields(existing, a, t) ==
    LET tz == _resolve_timezone(IF Truthy(a.timezone_name) THEN a.timezone_name
                                ELSE Some(existing.timezone))
        start == _coerce_start_datetime(
                    a.start_time, tz,
                    IF existing.start_time # None THEN existing.start_time[1] ELSE t)
        recurrence_to_use == IF a.recurrence_rule # None THEN a.recurrence_rule
                             ELSE existing.recurrence_rule
        reschedule == Reschedules(a)
        next_fire == _compute_next_fire(recurrence_to_use, start, tz, t)
        stored == _build_recurrence(recurrence_to_use, start, tz)
    IN [raised |-> reschedule /\ (next_fire.raised \/ stored.raised),
        fields |->
            Field(a.payload # None, "payload", a.payload[1])
            @@ Field(a.status # None, "status", _normalize_status(a.status))
            @@ Field(a.start_time # None, "start_time", Some(start))
            @@ Field(a.timezone_name # None, "timezone", tz)
            @@ Field(reschedule, "next_trigger", next_fire.val)
            @@ Field(reschedule, "recurrence_rule", stored.val)
            @@ LastErrorField(a)]

(* lines 239-277: up to the store.update; the call ends here when it      *)
(* finds no trigger, raises, or has no field to write                     *)
UpdateRead(c, trigger_id, agent_name, a) ==
    LET existing == fetch_one(rows, trigger_id, agent_name)
    IN /\ ~upd[c].busy
       /\ existing # None
       /\ LET u == UpdateFields(existing[1], a, now)
          IN /\ ~u.raised
             /\ DOMAIN u.fields # {}
             /\ upd' = [upd EXCEPT ![c] =
                          [busy |-> TRUE, trigger_id |-> trigger_id,
                           agent_name |-> agent_name, fields |-> u.fields,
                           existing |-> existing, t |-> now]]
       /\ UNCHANGED <<rows, nextId, now, polled, fired, lock, ops>>

(* the write is dropped when the row is no longer the one that was read *)
UpdateWrittenIfUnchanged(table, u, stamp) ==
    IF fetch_one(table, u.trigger_id, u.agent_name) = u.existing
    THEN StoreUpdate(table, u.trigger_id, u.agent_name, u.fields, stamp).table
    ELSE table

(* line 279: the fields computed from the record read at line 239 are    *)
(* written whatever the row holds by now                                  *)
UpdateWritten(table, u, stamp) ==
    StoreUpdate(table, u.trigger_id, u.agent_name, u.fields, stamp).table

(* line 280: what the call returns after its store.update *)
UpdateReturned(table, u, stamp) ==
    LET w == StoreUpdate(table, u.trigger_id, u.agent_name, u.fields, stamp)
    IN IF w.updated THEN fetch_one(w.table, u.trigger_id, u.agent_name)
       ELSE u.existing

(* lines 279-280: the store.update.  It reads the clock for updated_at    *)
(* (line 129) before it takes the lock (line 133), so the stamp it        *)
(* writes is any time from the read of the call up to the write.          *)
UpdateWrite(c) ==
    /\ upd[c].busy
    /\ \E stamp \in upd[c].t..now : rows' = UpdateWritten(rows, upd[c], stamp)
    /\ upd' = [upd EXCEPT ![c] = Idle]
    /\ UNCHANGED <<nextId, now, polled, fired, lock, ops>>

(* a call that gives no field still stamps the row *)
UpdatedTableTouches(table, trigger_id, agent_name, a, t) ==
    LET existing == fetch_one(table, trigger_id, agent_name)
    IN IF existing = None THEN table
       ELSE LET u == UpdateFields(existing[1], a, t)
            IN IF u.raised THEN table
               ELSE StoreUpdate(table, trigger_id, agent_name,
                                u.fields @@ [payload |-> existing[1].payload], t).table

(* the table after the whole call, with no other call between its read    *)
(* and its write                                                          *)
UpdatedTable(table, trigger_id, agent_name, a, t) ==
    LET existing == fetch_one(table, trigger_id, agent_name)
    IN IF existing = None THEN table
       ELSE LET u == UpdateFields(existing[1], a, t)
            IN IF u.raised \/ DOMAIN u.fields = {} THEN table
               ELSE StoreUpdate(table, trigger_id, agent_name, u.fields, t).table

(* [raised, val]: what the whole call returns *)
UpdatedRecord(table, trigger_id, agent_name, a, t) ==
    LET existing == fetch_one(table, trigger_id, agent_name)
    IN IF existing = None THEN [raised |-> FALSE, val |-> None]
       ELSE LET u == UpdateFields(existing[1], a, t)
                w == StoreUpdate(table, trigger_id, agent_name, u.fields, t)
            IN IF u.raised THEN [raised |-> TRUE, val |-> None]
               ELSE IF DOMAIN u.fields = {} THEN [raised |-> FALSE, val |-> existing]
               ELSE [raised |-> FALSE,
                     val |-> IF w.updated
                             THEN fetch_one(w.table, trigger_id, agent_name)
                             ELSE existing]

list_triggers(table, agent_name) == list_for_agent(table, agent_name)

update_trigger(trigger_id, agent_name, a) ==
    /\ \A c \in Callers : ~upd[c].busy
    /\ rows' = UpdatedTable(rows, trigger_id, agent_name, a, now)
    /\ UNCHANGED <<nextId, now, polled, upd, fired, lock, ops>>

(* only the error is cleared *)
MarkClearsErrorOnly == [last_error |-> None]

(* the error of the last failed dispatch is kept *)
MarkKeepsError == [status |-> "completed", next_trigger |-> None]

(* the fired trigger is silenced and left active *)
MarkClearsNextFireOnly ==
    [status |-> "active", next_trigger |-> None, last_error |-> None]

MarkCompletedFields ==
    [status |-> "completed", next_trigger |-> None, last_error |-> None]

MarkedTable(table, trigger_id, agent_name, t) ==
    StoreUpdate(table, trigger_id, agent_name, MarkCompletedFields, t).table

mark_as_completed(trigger_id, agent_name) ==
    /\ rows' = MarkedTable(rows, trigger_id, agent_name, now)
    /\ UNCHANGED <<nextId, now, upd, fired, lock, ops>>

get_due_triggers(before, agent_name) ==
    /\ polled' = fetch_due(rows, agent_name, before)
    /\ UNCHANGED <<rows, nextId, now, upd, fired, lock, ops>>

(* the next occurrence is computed and not written *)
ScheduleClearsErrorOnly(trigger, fired_at) ==
    IF ~RuleGiven(trigger.recurrence_rule) THEN MarkCompletedFields
    ELSE [last_error |-> None]

(* a one-off trigger that fired keeps the error of an earlier dispatch *)
ScheduleOneOffKeepsError(trigger, fired_at) ==
    IF ~RuleGiven(trigger.recurrence_rule) THEN MarkKeepsError
    ELSE LET tz == _resolve_timezone(Some(trigger.timezone))
             next_fire == _compute_next_after(trigger.recurrence_rule[1], fired_at, tz)
         IN [next_trigger |-> next_fire, last_error |-> None]
            @@ Field(next_fire = None, "status", "completed")

(* an exhausted recurrence keeps its status *)
ScheduleLeavesExhaustedActive(trigger, fired_at) ==
    IF ~RuleGiven(trigger.recurrence_rule) THEN MarkCompletedFields
    ELSE LET tz == _resolve_timezone(Some(trigger.timezone))
             next_fire == _compute_next_after(trigger.recurrence_rule[1], fired_at, tz)
         IN [next_trigger |-> next_fire, last_error |-> None]

(* the fields schedule_next_occurrence writes *)
ScheduleFields(trigger, fired_at) ==
    IF ~RuleGiven(trigger.recurrence_rule) THEN MarkCompletedFields
    ELSE LET tz == _resolve_timezone(Some(trigger.timezone))
             next_fire == _compute_next_after(trigger.recurrence_rule[1], fired_at, tz)
         IN [next_trigger |-> next_fire, last_error |-> None]
            @@ Field(next_fire = None, "status", "completed")

ScheduledTable(table, trigger, fired_at, t) ==
    StoreUpdate(table, trigger.id, trigger.agent_name,
                ScheduleFields(trigger, fired_at), t).table

(* the record schedule_next_occurrence returns *)
ScheduledRecord(table, trigger, fired_at, t) ==
    fetch_one(ScheduledTable(table, trigger, fired_at, t), trigger.id, trigger.agent_name)

schedule_next_occurrence(trigger, fired_at) ==
    /\ rows' = ScheduledTable(rows, trigger, fired_at, now)
    /\ UNCHANGED <<nextId, now, upd, lock, ops>>

(* a failed trigger is paused *)
RecordFailurePauses(error) == [last_error |-> Some(error), status |-> "paused"]

(* a failed trigger is retried later *)
RecordFailureBacksOff(error) ==
    [last_error |-> Some(error), next_trigger |-> Some(MaxTime + 1)]

RecordFailureFields(error) == [last_error |-> Some(error)]

FailedTable(table, trigger, error, t) ==
    StoreUpdate(table, trigger.id, trigger.agent_name, RecordFailureFields(error), t).table

record_failure(trigger, error) ==
    /\ rows' = FailedTable(rows, trigger, error, now)
    /\ UNCHANGED <<nextId, now, upd, lock, ops>>

(* clearing also pauses the trigger *)
ClearNextFirePauses == [next_trigger |-> None, status |-> "paused"]

ClearNextFireFields == [next_trigger |-> None]

ClearedTable(table, trigger_id, agent_name, t) ==
    StoreUpdate(table, trigger_id, agent_name, ClearNextFireFields, t).table

(* the record clear_next_fire returns *)
ClearedRecord(table, trigger_id, agent_name, t) ==
    fetch_one(ClearedTable(table, trigger_id, agent_name, t), trigger_id, agent_name)

clear_next_fire(trigger_id, agent_name) ==
    /\ rows' = ClearedTable(rows, trigger_id, agent_name, now)
    /\ UNCHANGED <<nextId, now, polled, upd, fired, lock, ops>>

(* the triggers without a next_trigger are kept *)
AllClearedButSilenced(table) ==
    [i \in {j \in DOMAIN table : table[j].next_trigger = None} |-> table[i]]

(* DELETE FROM triggers *)
AllCleared(table) == NoRows

clear_all ==
    /\ rows' = AllCleared(rows)
    /\ UNCHANGED <<nextId, now, polled, upd, fired, lock, ops>>

----------------------------------------------------------------------------
(* The calls of the callers: tool handlers, the poller, administration *)

Times == 0..MaxTime
Intervals == 1..MaxInterval
Errors == {"e1"}

CreateArgs ==
    [agent_name : Owners,
     payload : {"p1"},
     recurrence_rule : {None, Some(<<BlankLine, DtLine("Z", 0)>>),
                        Some(<<BareLine(MaxInterval, 0)>>),
                        Some(<<DtLine("Z", 1), RuleLine(1, 2)>>)},
     start_time : {None, Some(Stamp("aware", 0)), Some(Stamp("naive", MaxTime))},
     timezone_name : {None, Some("Africa/Lagos")},
     status : {None, Some("PAUSED"), Some("completed")}]

NoArgs ==
    [payload |-> None, recurrence_rule |-> None, start_time |-> None,
     timezone_name |-> None, status |-> None, last_error |-> None,
     clear_error |-> FALSE]

UpdateArgs ==
    {NoArgs,
     [NoArgs EXCEPT !.payload = Some("p2")],
     [NoArgs EXCEPT !.last_error = Some("e2")],
     [NoArgs EXCEPT !.clear_error = TRUE, !.last_error = Some("e2")]}
    \cup {[NoArgs EXCEPT !.status = Some(st)] : st \in {"active", "paused", "completed", "done"}}
    \cup {[NoArgs EXCEPT !.recurrence_rule = r] :
            r \in {Some(<<>>), Some(<<DtLine("Z", 0)>>)}
                  \cup {Some(<<BareLine(i, 0)>>) : i \in Intervals}}
    \cup {[NoArgs EXCEPT !.start_time = Some(Stamp("aware", t))] : t \in Times}
    \cup {[NoArgs EXCEPT !.start_time = Some(EmptyStamp)],
          [NoArgs EXCEPT !.payload = Some("p2"), !.status = Some("paused"),
                         !.recurrence_rule = Some(<<BlankLine, DtLine("Z", 0)>>)]}
    \cup {[NoArgs EXCEPT !.timezone_name = Some(z)] :
            z \in {"Africa/Lagos", "Mars/Olympus", ""}}

(* calls that give none of recurrence_rule, start_time, timezone_name *)
ContentArgs ==
    {a \in [payload : {None, Some("p2")},
            recurrence_rule : {None},
            start_time : {None},
            timezone_name : {None},
            status : {None, Some("Completed"), Some("done")},
            last_error : {None, Some("e2")},
            clear_error : BOOLEAN] : a.clear_error => a.last_error # None}

(* calls that give at least one of recurrence_rule, start_time and        *)
(* timezone_name, "" included                                             *)
RescheduleArgs ==
    {[NoArgs EXCEPT !.recurrence_rule = r] :
        r \in {Some(<<>>), Some(<<DtLine("Z", 0)>>), Some(<<BareLine(MaxInterval, 0)>>),
               Some(<<DtLine("Z", 0), RuleLine(1, 2)>>)}}
    \cup {[NoArgs EXCEPT !.start_time = st] :
            st \in {Some(EmptyStamp), Some(Stamp("aware", 0)),
                    Some(Stamp("naive", MaxTime))}}
    \cup {[NoArgs EXCEPT !.timezone_name = z] :
            z \in {Some(""), Some("Africa/Lagos"), Some("Mars/Olympus")}}
    \cup {[NoArgs EXCEPT !.start_time = Some(Stamp("naive", MaxTime)),
                         !.timezone_name = Some("Africa/Lagos")],
          [NoArgs EXCEPT !.start_time = Some(EmptyStamp),
                         !.timezone_name = Some("")],
          [NoArgs EXCEPT !.recurrence_rule = Some(<<BareLine(1, 0)>>),
                         !.start_time = Some(Stamp("naive", MaxTime))],
          [NoArgs EXCEPT !.recurrence_rule = Some(<<BareLine(1, 0)>>),
                         !.start_time = Some(Stamp("aware", 0)),
                         !.timezone_name = Some("Africa/Lagos")]}

(* recurrence strings that are not empty and hold no rule line *)
RulesWithoutRuleLine ==
    {Some(<<DtLine("Z", 0)>>), Some(<<BlankLine>>),
     Some(<<BlankLine, DtLine("Africa/Lagos", 1), DtLine("Z", 0)>>)}

BadCreateArgs ==
    [agent_name : Owners,
     payload : {"p1"},
     recurrence_rule : RulesWithoutRuleLine,
     start_time : {None},
     timezone_name : {None, Some("Africa/Lagos")},
     status : {None, Some("PAUSED")}]

BadUpdateArgs ==
    [payload : {None, Some("p2")},
     recurrence_rule : RulesWithoutRuleLine,
     start_time : {None, Some(Stamp("aware", 0))},
     timezone_name : {None},
     status : {None, Some("paused")},
     last_error : {None},
     clear_error : {FALSE}]

(* calls that create a one-off trigger *)
OneOffCreateArgs ==
    [agent_name : Owners,
     payload : {"p1"},
     recurrence_rule : {None, Some(<<>>)},
     start_time : {None, Some(EmptyStamp), Some(Stamp("aware", 0)),
                   Some(Stamp("aware", MaxTime)), Some(Stamp("naive", 1))},
     timezone_name : {None, Some("Africa/Lagos")},
     status : {None}]

(* calls that create a recurring trigger: unbounded and counted rules *)
RecurringCreateArgs ==
    [agent_name : Owners,
     payload : {"p1"},
     recurrence_rule : {Some(<<BareLine(1, 0)>>), Some(<<BareLine(MaxInterval, 0)>>),
                        Some(<<DtLine("Z", 1), RuleLine(1, 2)>>),
                        Some(<<RuleLine(MaxInterval, 1)>>)},
     start_time : {None, Some(Stamp("aware", 0)), Some(Stamp("naive", 1))},
     timezone_name : {None, Some("Africa/Lagos")},
     status : {None}]

(* zone names the tz database does not know, status values outside       *)
(* VALID_STATUSES                                                         *)
UnknownZones == {"Mars/Olympus"}
UnknownStatuses == {"done"}

DegradedCreateArgs ==
    {a \in [agent_name : Owners,
            payload : {"p1"},
            recurrence_rule : {None, Some(<<BareLine(1, 0)>>)},
            start_time : {None, Some(Stamp("naive", 1))},
            timezone_name : {None, Some("Africa/Lagos")}
                            \cup {Some(z) : z \in UnknownZones},
            status : {None, Some("PAUSED")} \cup {Some(st) : st \in UnknownStatuses}] :
        \/ a.timezone_name \in {Some(z) : z \in UnknownZones}
        \/ a.status \in {Some(st) : st \in UnknownStatuses}}

DegradedUpdateArgs ==
    {a \in [payload : {None, Some("p2")},
            recurrence_rule : {None, Some(<<BareLine(MaxInterval, 0)>>)},
            start_time : {None, Some(Stamp("naive", 1))},
            timezone_name : {None} \cup {Some(z) : z \in UnknownZones},
            status : {None} \cup {Some(st) : st \in UnknownStatuses},
            last_error : {None, Some("e2")},
            clear_error : {FALSE}] :
        /\ a.timezone_name # None \/ a.status # None
        /\ a.recurrence_rule # None => (a.payload = None /\ a.start_time = None)
        /\ a.start_time # None => a.payload = None
        /\ a.last_error # None <=> a.payload # None}

(* calls over every combination of clear_error and last_error, alone or  *)
(* with another field                                                     *)
ErrorArgs ==
    {a \in [payload : {None, Some("p2")},
            recurrence_rule : {None, Some(<<BareLine(1, 0)>>)},
            start_time : {None},
            timezone_name : {None},
            status : {None},
            last_error : {None, Some("e2"), Some("")},
            clear_error : BOOLEAN] :
        a.recurrence_rule # None => a.payload = None}

(* accepted recurrence inputs: a bare body, a rule line, lines with the   *)
(* caller's DTSTART lines and blank lines around, two rule lines, a rule  *)
(* line named in lower case                                               *)
AcceptedRules ==
    {<<BareLine(1, 0)>>,
     <<RuleLine(1, 2)>>,
     <<DtLine("Z", 1), RuleLine(1, 2)>>,
     <<DtLine("Africa/Lagos", 0), BlankLine, BareLine(MaxInterval, 0), DtLine("Z", 0)>>,
     <<RuleLine(1, 0), DtLine("Z", 0), RuleLine(MaxInterval, 0)>>,
     <<LowerRuleLine(1, 0)>>}

AcceptedCreateArgs ==
    [agent_name : Owners,
     payload : {"p1"},
     recurrence_rule : {Some(r) : r \in AcceptedRules},
     start_time : {None, Some(Stamp("naive", 1))},
     timezone_name : {None, Some("Africa/Lagos")},
     status : {None}]

AcceptedUpdateArgs ==
    {[NoArgs EXCEPT !.recurrence_rule = Some(r)] : r \in AcceptedRules}
    \cup {[NoArgs EXCEPT !.recurrence_rule = Some(r),
                         !.timezone_name = Some("Africa/Lagos")] : r \in AcceptedRules}

CreateTrigger == nextId <= MaxId /\ \E a \in CreateArgs : create_trigger(a)

UpdateTrigger ==
    \E trigger_id \in 1..MaxId, agent_name \in Agents, a \in UpdateArgs :
        update_trigger(trigger_id, agent_name, a)

MarkAsCompleted ==
    \E trigger_id \in 1..MaxId, agent_name \in Agents :
        /\ mark_as_completed(trigger_id, agent_name)
        /\ UNCHANGED polled

ClearNextFire ==
    \E trigger_id \in 1..MaxId, agent_name \in Agents :
        clear_next_fire(trigger_id, agent_name)

ClearAll == clear_all

(* a record just read from the store (list_triggers, get_due_triggers) *)
Stored == {rows[i] : i \in DOMAIN rows}

ScheduleNextOccurrence ==
    \E trigger \in Stored, fired_at \in Times :
        /\ schedule_next_occurrence(trigger, fired_at)
        /\ fired' = (trigger.id :> fired_at) @@ fired
        /\ UNCHANGED polled

RecordFailure ==
    \E trigger \in Stored, error \in Errors :
        /\ record_failure(trigger, error)
        /\ UNCHANGED <<polled, fired>>

(* Callers that issue one call at a time *)
Next ==
    \/ Tick
    \/ CreateTrigger
    \/ UpdateTrigger
    \/ MarkAsCompleted
    \/ ClearNextFire
    \/ ClearAll
    \/ ScheduleNextOccurrence
    \/ RecordFailure

Spec == Init /\ [][Next]_vars

(* Callers whose update_trigger calls run concurrently: each call reads  *)
(* the record, computes its fields and writes them, and other calls run   *)
(* between the read and the write.                                        *)
RecurringArgs ==
    [agent_name : Owners,
     payload : {"p1"},
     recurrence_rule : {Some(<<BareLine(1, 0)>>)},
     start_time : {None},
     timezone_name : {None, Some("Africa/Abidjan")},
     status : {None}]

ConcurrentArgs ==
    {[NoArgs EXCEPT !.payload = Some("p2")],
     [NoArgs EXCEPT !.recurrence_rule = Some(<<DtLine("Z", 0), BareLine(MaxInterval, 0)>>)],
     [NoArgs EXCEPT !.start_time = Some(Stamp("aware", 0))],
     [NoArgs EXCEPT !.timezone_name = Some("Africa/Lagos")]}

CreateRecurring == nextId <= MaxId /\ \E a \in RecurringArgs : create_trigger(a)

UpdateBegin ==
    \E c \in Callers, trigger_id \in 1..MaxId, agent_name \in Owners, a \in ConcurrentArgs :
        UpdateRead(c, trigger_id, agent_name, a)

UpdateEnd == \E c \in Callers : UpdateWrite(c)

(* the administrative reset arrives while an update is between its read  *)
(* and its write                                                          *)
ClearDuringUpdate ==
    /\ \E c \in Callers : upd[c].busy
    /\ clear_all

NextConc ==
    \/ Tick
    \/ CreateRecurring
    \/ UpdateBegin
    \/ UpdateEnd

SpecConc == Init /\ [][NextConc]_vars

(* One caller updating while the store is reset *)
UpdateBeginAlone ==
    \E trigger_id \in 1..MaxId, agent_name \in Owners, a \in ConcurrentArgs :
        UpdateRead("c1", trigger_id, agent_name, a)

NextReset ==
    \/ Tick
    \/ CreateRecurring
    \/ UpdateBeginAlone
    \/ UpdateEnd
    \/ ClearDuringUpdate

SpecReset == Init /\ [][NextReset]_vars

(* The poller: it reads the due triggers, dispatches each one and then   *)
(* reports on the record it holds, while tool handlers update the         *)
(* triggers; the record the poller holds may be stale when it reports.    *)
PollerCreateArgs ==
    [agent_name : Owners,
     payload : {"p1"},
     recurrence_rule : {None, Some(<<BareLine(1, 0)>>)},
     start_time : {None, Some(Stamp("aware", 0))},
     timezone_name : {None},
     status : {None}]

PollerUpdateArgs ==
    {[NoArgs EXCEPT !.status = Some(st)] : st \in {"paused", "completed"}}
    \cup {[NoArgs EXCEPT !.recurrence_rule = r] :
            r \in {Some(<<>>), Some(<<BareLine(MaxInterval, 0)>>)}}
    \cup {[NoArgs EXCEPT !.timezone_name = Some("Africa/Lagos")]}

CreateForPoller == nextId <= MaxId /\ \E a \in PollerCreateArgs : create_trigger(a)

UpdateDuringPoll ==
    \E trigger_id \in 1..MaxId, agent_name \in Owners, a \in PollerUpdateArgs :
        update_trigger(trigger_id, agent_name, a)

GetDueTriggers ==
    \E agent_name \in {None} \cup {Some(a) : a \in Agents} :
        get_due_triggers(now, agent_name)

ScheduleHeld ==
    \E trigger \in polled :
        /\ schedule_next_occurrence(trigger, now)
        /\ polled' = polled \ {trigger}
        /\ fired' = (trigger.id :> now) @@ fired

FailHeld ==
    \E trigger \in polled, error \in Errors :
        /\ record_failure(trigger, error)
        /\ polled' = polled \ {trigger}
        /\ UNCHANGED fired

CompleteHeld ==
    \E trigger \in polled :
        /\ mark_as_completed(trigger.id, trigger.agent_name)
        /\ polled' = polled \ {trigger}

NextPoll ==
    \/ Tick
    \/ CreateForPoller
    \/ UpdateDuringPoll
    \/ GetDueTriggers
    \/ ScheduleHeld
    \/ FailHeld
    \/ CompleteHeld
    \/ ClearAll

SpecPoll == Init /\ [][NextPoll]_vars

-----------------------------------------------------------------------------
(* Two agents that keep several triggers each and list them *)

ListedCreateArgs ==
    [agent_name : Agents,
     payload : {"p1"},
     recurrence_rule : {None},
     start_time : {None, Some(Stamp("aware", 0))},
     timezone_name : {None},
     status : {None}]

CreateListed == nextId <= MaxListed /\ \E a \in ListedCreateArgs : create_trigger(a)

ClearListed ==
    \E trigger \in Stored : clear_next_fire(trigger.id, trigger.agent_name)

NextList ==
    \/ Tick
    \/ CreateListed
    \/ ClearListed
    \/ ClearAll

SpecList == Init /\ [][NextList]_vars

-----------------------------------------------------------------------------
(* The store operations of concurrent callers, statement by statement:    *)
(* each one runs its SQL inside `with self._lock, self._connect()`.       *)

LockedCreateArgs ==
    [agent_name : Agents,
     payload : {"p1"},
     recurrence_rule : {None},
     start_time : {None},
     timezone_name : {None},
     status : {None}]

(* the payload create_trigger hands to insert: the row without its id *)
InsertPayloads(t) == {CreateRecord(0, a, t).record : a \in LockedCreateArgs}

StoreCall(op, trigger_id, agent_name, fields, payload, t) ==
    [pc |-> "waiting", op |-> op, trigger_id |-> trigger_id,
     agent_name |-> agent_name, fields |-> fields, payload |-> payload, t |-> t,
     entry |-> NoRows, rowid |-> 0, result |-> None]

(* the calls a caller can make at time t; update reads the clock for its  *)
(* updated_at, and fetch_due is given its cutoff, before the lock         *)
StoreCallsAt(t) ==
    {StoreCall("insert", 0, p.agent_name, NoFields, Some(p), t) : p \in InsertPayloads(t)}
    \cup {StoreCall("fetch_one", i, "agent-a", NoFields, None, t) : i \in 1..(MaxId + 1)}
    \cup {StoreCall("update", i, "agent-a", f, None, t) :
            i \in 1..(MaxId + 1), f \in {ClearNextFireFields, MarkCompletedFields}}
    \cup {StoreCall("list_for_agent", 0, "agent-a", NoFields, None, t),
          StoreCall("fetch_due", 0, "", NoFields, None, t),
          StoreCall("clear_all", 0, "", NoFields, None, t)}

Begin(c) ==
    /\ ops[c].pc = "idle"
    /\ \E call \in StoreCallsAt(now) :
          /\ call.op = "insert" =>
                nextId + Cardinality({d \in Callers : ops[d].pc \in {"waiting", "inside"}
                                                      /\ ops[d].op = "insert"})
                    <= MaxId + 1
          /\ ops' = [ops EXCEPT ![c] = call]
    /\ UNCHANGED <<rows, nextId, now, polled, upd, fired, lock>>

(* the lock is taken without looking at it *)
CanAcquireAlways == TRUE

(* threading.Lock.acquire returns once the lock is free *)
CanAcquire == ~lock

Acquire(c) ==
    /\ ops[c].pc = "waiting"
    /\ CanAcquire
    /\ lock' = TRUE
    /\ ops' = [ops EXCEPT ![c].pc = "inside", ![c].entry = rows]
    /\ UNCHANGED <<rows, nextId, now, polled, upd, fired>>

(* the first statement of the operation *)
Statement(c) ==
    LET o == ops[c]
    IN /\ o.pc = "inside"
       /\ CASE o.op = "insert" ->
                 /\ rows' = (nextId :> [o.payload[1] EXCEPT !.id = nextId]) @@ rows
                 /\ nextId' = nextId + 1
                 /\ ops' = [ops EXCEPT ![c].pc = "inserted", ![c].rowid = nextId]
            [] o.op = "update" ->
                 LET u == StoreUpdate(rows, o.trigger_id, o.agent_name, o.fields, o.t)
                 IN /\ rows' = u.table
                    /\ ops' = [ops EXCEPT ![c].pc = "done", ![c].result = u.updated]
                    /\ UNCHANGED nextId
            [] o.op = "clear_all" ->
                 /\ rows' = NoRows
                 /\ ops' = [ops EXCEPT ![c].pc = "done"]
                 /\ UNCHANGED nextId
            [] o.op = "fetch_one" ->
                 /\ ops' = [ops EXCEPT ![c].pc = "done",
                                       ![c].result =
                                           fetch_one(rows, o.trigger_id, o.agent_name)]
                 /\ UNCHANGED <<rows, nextId>>
            [] o.op = "list_for_agent" ->
                 /\ \E listed \in list_for_agent(rows, o.agent_name) :
                       ops' = [ops EXCEPT ![c].pc = "done", ![c].result = listed]
                 /\ UNCHANGED <<rows, nextId>>
            [] o.op = "fetch_due" ->
                 /\ ops' = [ops EXCEPT ![c].pc = "done",
                                       ![c].result =
                                           fetch_due(rows, Some(o.agent_name), o.t)]
                 /\ UNCHANGED <<rows, nextId>>
       /\ UNCHANGED <<now, polled, upd, fired, lock>>

(* insert, line 108: SELECT last_insert_rowid() on the same connection *)
SelectRowid(c) ==
    /\ ops[c].pc = "inserted"
    /\ ops' = [ops EXCEPT ![c].pc = "done", ![c].result = ops[c].rowid]
    /\ UNCHANGED <<rows, nextId, now, polled, upd, fired, lock>>

(* the end of the with block *)
Release(c) ==
    /\ ops[c].pc = "done"
    /\ lock' = FALSE
    /\ ops' = [ops EXCEPT ![c] = NoOp]
    /\ UNCHANGED <<rows, nextId, now, polled, upd, fired>>

NextLock ==
    \/ Tick
    \/ \E c \in Callers : Begin(c)
    \/ \E c \in Callers : Acquire(c)
    \/ \E c \in Callers : Statement(c)
    \/ \E c \in Callers : SelectRowid(c)
    \/ \E c \in Callers : Release(c)

SpecLock == Init /\ [][NextLock]_vars

-----------------------------------------------------------------------------
(* A sequential poller alone with the callers that create triggers: it    *)
(* polls with the current time when it holds no record, and handles every *)
(* record it holds, always with success, before it polls again.           *)

FairCreateArgs ==
    {a \in [agent_name : Owners,
            payload : {"p1"},
            recurrence_rule : {None, Some(<<RuleLine(1, 1)>>), Some(<<RuleLine(1, 2)>>),
                               Some(<<BareLine(1, 0)>>)},
            start_time : {None, Some(Stamp("aware", 0)), Some(Stamp("aware", MaxTime))},
            timezone_name : {None},
            status : {None, Some("paused")}] :
        /\ a.recurrence_rule = Some(<<RuleLine(1, 1)>>) => a.start_time = None
        /\ a.recurrence_rule = Some(<<RuleLine(1, 2)>>)
              => a.start_time = Some(Stamp("aware", 0))
        /\ a.recurrence_rule = Some(<<BareLine(1, 0)>>)
              => (a.start_time = None /\ a.status = None)}

CreateForFairPoller == nextId <= MaxId /\ \E a \in FairCreateArgs : create_trigger(a)

PollDue ==
    /\ polled = {}
    /\ get_due_triggers(now, None)

ScheduleRecurringHeld ==
    \E trigger \in polled :
        /\ RuleGiven(trigger.recurrence_rule)
        /\ schedule_next_occurrence(trigger, now)
        /\ polled' = polled \ {trigger}
        /\ fired' = (trigger.id :> now) @@ fired

CompleteOneOffHeld ==
    \E trigger \in polled :
        /\ ~RuleGiven(trigger.recurrence_rule)
        /\ mark_as_completed(trigger.id, trigger.agent_name)
        /\ polled' = polled \ {trigger}

NextFair ==
    \/ Tick
    \/ CreateForFairPoller
    \/ PollDue
    \/ ScheduleRecurringHeld
    \/ CompleteOneOffHeld

SpecFair ==
    /\ Init /\ [][NextFair]_vars
    /\ WF_vars(Tick)
    /\ WF_vars(PollDue)
    /\ WF_vars(ScheduleRecurringHeld)
    /\ WF_vars(CompleteOneOffHeld)

-----------------------------------------------------------------------------
(* Two agents with a trigger each or two of one agent, their updates and  *)
(* the poller                                                             *)

FramedCreateArgs ==
    [agent_name : Agents,
     payload : {"p1"},
     recurrence_rule : {None, Some(<<BareLine(1, 0)>>)},
     start_time : {None},
     timezone_name : {None},
     status : {None}]

FramedUpdateArgs ==
    {[NoArgs EXCEPT !.payload = Some("p2")],
     [NoArgs EXCEPT !.recurrence_rule = Some(<<BareLine(MaxInterval, 0)>>)]}

CreateFramed == nextId <= MaxId + 1 /\ \E a \in FramedCreateArgs : create_trigger(a)

UpdateFramed ==
    \E trigger_id \in 1..(MaxId + 1), agent_name \in Agents, a \in FramedUpdateArgs :
        update_trigger(trigger_id, agent_name, a)

NextFrame ==
    \/ CreateFramed
    \/ UpdateFramed
    \/ GetDueTriggers
    \/ ScheduleHeld
    \/ CompleteHeld

SpecFrame == Init /\ [][NextFrame]_vars

(* Callers whose create_trigger calls run concurrently with each other,   *)
(* with update_trigger and with clear_all: each call inserts its record,  *)
(* then reads the row back under the id of the insert (lines 220-224).    *)

(* INTEGER PRIMARY KEY without AUTOINCREMENT: one more than the largest   *)
(* id in the table                                                        *)
NextRowidOfTable(table, sequence) ==
    IF DOMAIN table = {} THEN 1
    ELSE (CHOOSE i \in DOMAIN table : \A j \in DOMAIN table : j <= i) + 1

(* AUTOINCREMENT: one more than the largest id the table ever held *)
NextRowid(table, sequence) == sequence

IdCreateArgs ==
    [agent_name : Agents,
     payload : {"p1"},
     recurrence_rule : {None, Some(<<BareLine(1, 0)>>)},
     start_time : {None},
     timezone_name : {None},
     status : {None}]

(* line 220: trigger_id = self._store.insert(record) *)
CreateInsert(c) ==
    /\ ops[c] = NoOp
    /\ nextId <= MaxId + 2
    /\ \E a \in IdCreateArgs :
        LET trigger_id == NextRowid(rows, nextId)
            made == CreateRecord(trigger_id, a, now)
        IN /\ ~made.raised
           /\ rows' = (trigger_id :> made.record) @@ rows
           /\ nextId' = Max(nextId, trigger_id + 1)
           /\ ops' = [ops EXCEPT ![c] =
                 [pc |-> "inserted", id |-> trigger_id, record |-> made.record]]
    /\ UNCHANGED <<now, polled, upd, fired, lock>>

(* lines 221-223: created = self._store.fetch_one(trigger_id, agent_name); *)
(* created = None stands for the RuntimeError of line 223                  *)
CreateFetch(c) ==
    /\ ops[c].pc = "inserted"
    /\ ops' = [ops EXCEPT ![c] =
          [pc |-> "returned", id |-> ops[c].id, record |-> ops[c].record,
           created |-> fetch_one(rows, ops[c].id, ops[c].record.agent_name)]]
    /\ UNCHANGED <<rows, nextId, now, polled, upd, fired, lock>>

(* line 224: return created *)
CreateReturn(c) ==
    /\ ops[c].pc = "returned"
    /\ ops' = [ops EXCEPT ![c] = NoOp]
    /\ UNCHANGED <<rows, nextId, now, polled, upd, fired, lock>>

CreateInserts == \E c \in Callers : CreateInsert(c)
CreateFetches == \E c \in Callers : CreateFetch(c)
CreateReturns == \E c \in Callers : CreateReturn(c)

(* another caller, who has the id from list_triggers, changes the payload *)
UpdateListed ==
    \E trigger \in Stored :
        update_trigger(trigger.id, trigger.agent_name, [NoArgs EXCEPT !.payload = Some("p2")])

NextIds ==
    \/ CreateInserts
    \/ CreateFetches
    \/ CreateReturns
    \/ UpdateListed
    \/ ClearAll

SpecIds == Init /\ [][NextIds]_vars

----------------------------------------------------------------------------
(* Claims *)

(* C1: every stored trigger whose status is completed has next_trigger    *)
(* null.                                                                  *)
C1_CompletedHasNoNextTrigger ==
    \A i \in DOMAIN rows :
        rows[i].status = "completed" => rows[i].next_trigger = None

(* C2: completed is terminal: once a trigger's status is completed, no    *)
(* later operation leaves it with status active or paused.                *)
C2_CompletedIsTerminal ==
    [][\A i \in DOMAIN rows :
          (rows[i].status = "completed" /\ i \in DOMAIN rows')
              => rows'[i].status = "completed"]_vars

NextTrigger(table, i) == table[i].next_trigger

(* C3 as claimed: next_trigger never decreases when one non-null value    *)
(* replaces another, and a non-null next_trigger is never earlier than    *)
(* the last fired_at passed to schedule_next_occurrence for the trigger.  *)
C3_NextTriggerNeverDecreases ==
    [][\A i \in DOMAIN rows \cap DOMAIN rows' :
          /\ (NextTrigger(rows, i) # None /\ NextTrigger(rows', i) # None)
                => NextTrigger(rows', i)[1] >= NextTrigger(rows, i)[1]
          /\ (i \in DOMAIN fired' /\ NextTrigger(rows', i) # None)
                => NextTrigger(rows', i)[1] >= fired'[i]]_vars

(* C3 as amended: a next_trigger stored by schedule_next_occurrence is    *)
(* later than the fired_at of that call, so when the call is made at or   *)
(* after the stored next_trigger v (the trigger was due at fired_at) and  *)
(* stores a non-null v', then v' > v.                                     *)
C3_ScheduleMovesForward ==
    \A trigger \in Stored, fired_at \in Times :
        LET after == ScheduledTable(rows, trigger, fired_at, now)
        IN NextTrigger(after, trigger.id) # None
           => /\ NextTrigger(after, trigger.id)[1] > fired_at
              /\ (/\ NextTrigger(rows, trigger.id) # None
                  /\ NextTrigger(rows, trigger.id)[1] <= fired_at)
                 => NextTrigger(after, trigger.id)[1] > NextTrigger(rows, trigger.id)[1]

(* a recurring trigger rescheduled past the instant it fired at *)
C3_RescheduledPastFiredAt ==
    \E i \in DOMAIN rows \cap DOMAIN fired :
        /\ RuleGiven(rows[i].recurrence_rule)
        /\ rows[i].status = "active"
        /\ NextTrigger(rows, i) # None
        /\ NextTrigger(rows, i)[1] > fired[i]
        /\ fired[i] > 0

(* C4: a trigger with a recurrence rule stores a rule that starts with a *)
(* DTSTART line, and that line denotes the instant of the stored          *)
(* start_time and is expressed in the stored timezone (the UTC form when  *)
(* the offset of that zone is zero).                                      *)
C4_RuleCarriesStartAndZone ==
    \A i \in DOMAIN rows :
        rows[i].recurrence_rule # None
        => LET lines == rows[i].recurrence_rule[1]
           IN /\ Len(lines) >= 2
              /\ lines[1].k = "DTSTART"
              /\ DtLineInstant(lines[1]) = rows[i].start_time[1]
              /\ \/ lines[1].tzid = rows[i].timezone
                 \/ lines[1].tzid = "Z" /\ Offset(rows[i].timezone) = 0

(* What the claims say about occurrences and due triggers, stated without *)
(* the operators of the model.                                            *)
IsOccurrence(lines, o) ==
    \E j \in 1..Len(lines) :
        /\ lines[j].k \in {"RRULE", "BARE", "rrule"}
        /\ o >= DtStartOf(lines)
        /\ (o - DtStartOf(lines)) % lines[j].i = 0
        /\ (lines[j].c = 0 \/ (o - DtStartOf(lines)) \div lines[j].i < lines[j].c)

Cutoffs == 0..(MaxTime + MaxInterval + 1)
Filters == {None, Some("")} \cup {Some(a) : a \in Agents}
IsDue(table, i, agent_name, before) ==
    \E r \in fetch_due(table, agent_name, before) : r.id = i

(* C5: the record schedule_next_occurrence(trigger, fired_at) returns     *)
(* never has a non-null next_trigger <= fired_at; for a recurring trigger *)
(* it is the first occurrence strictly after fired_at.                    *)
C5_ReturnsFirstOccurrenceAfterFiredAt ==
    \A trigger \in Stored, fired_at \in Times :
        LET r == ScheduledRecord(rows, trigger, fired_at, now)
        IN (r # None /\ r[1].next_trigger # None)
           => /\ r[1].next_trigger[1] > fired_at
              /\ RuleGiven(trigger.recurrence_rule)
              /\ IsOccurrence(trigger.recurrence_rule[1], r[1].next_trigger[1])
              /\ \A o \in (fired_at + 1)..(r[1].next_trigger[1] - 1) :
                     ~IsOccurrence(trigger.recurrence_rule[1], o)

(* fired exactly at an occurrence, and rescheduled to the one after it *)
C5_FiredAtAnOccurrence ==
    \E i \in DOMAIN rows \cap DOMAIN fired :
        /\ RuleGiven(rows[i].recurrence_rule)
        /\ IsOccurrence(rows[i].recurrence_rule[1], fired[i])
        /\ rows[i].next_trigger # None
        /\ IsOccurrence(rows[i].recurrence_rule[1], rows[i].next_trigger[1])
        /\ rows[i].next_trigger[1] > fired[i]
        /\ rows[i].last_error = None
        /\ rows[i].updated_at = now

(* C6: when the poller finds recurring trigger t due at now and calls     *)
(* schedule_next_occurrence(t, fired_at = now), no get_due_triggers with  *)
(* a cutoff <= now returns t, and t is returned again only at a cutoff    *)
(* later than now, for an occurrence later than now.                      *)
C6_OccurrenceNotReturnedTwice ==
    \A trigger \in fetch_due(rows, None, now) :
        RuleGiven(trigger.recurrence_rule)
        => LET after == ScheduledTable(rows, trigger, now, now)
           IN \A before \in Cutoffs, agent_name \in Filters :
                 IsDue(after, trigger.id, agent_name, before)
                 => /\ before > now
                    /\ after[trigger.id].next_trigger[1] > now
                    /\ IsOccurrence(trigger.recurrence_rule[1],
                                    after[trigger.id].next_trigger[1])

(* a recurring trigger that fired now, still active, due again later *)
C6_FiredNowDueLater ==
    \E i \in DOMAIN rows \cap DOMAIN fired :
        /\ RuleGiven(rows[i].recurrence_rule)
        /\ fired[i] = now
        /\ rows[i].start_time[1] <= now
        /\ rows[i].status = "active"
        /\ ~IsDue(rows, i, None, now)
        /\ IsDue(rows, i, None, now + MaxInterval)

Frame(table, i) ==
    [c \in {"next_trigger", "status", "payload", "start_time", "recurrence_rule",
            "timezone"} |-> table[i][c]]

(* C7: record_failure(trigger, error) sets last_error of the matching     *)
(* trigger to error and leaves next_trigger, status, payload, start_time, *)
(* recurrence_rule and timezone unchanged.                                *)
C7_RecordFailureSetsOnlyLastError ==
    \A trigger \in Stored, error \in Errors :
        LET after == FailedTable(rows, trigger, error, now)
        IN /\ after[trigger.id].last_error = Some(error)
           /\ Frame(after, trigger.id) = Frame(rows, trigger.id)

(* a failure recorded on a paused trigger that keeps its schedule *)
C7_FailureRecorded ==
    \E i \in DOMAIN rows :
        /\ rows[i].last_error = Some("e1")
        /\ rows[i].status = "paused"
        /\ rows[i].next_trigger # None
        /\ rows[i].payload = "p2"

(* C8: an active trigger with next_trigger n is returned by every         *)
(* get_due_triggers(before = b) with b >= n whose agent filter is absent  *)
(* or its agent, and a record_failure leaves it so: same status, same     *)
(* next_trigger, still due at every such cutoff.                          *)
C8_FailedTriggerStaysDue ==
    \A trigger \in Stored, error \in Errors :
        (trigger.status = "active" /\ trigger.next_trigger # None)
        => LET after == FailedTable(rows, trigger, error, now)
           IN /\ after[trigger.id].status = "active"
              /\ after[trigger.id].next_trigger = trigger.next_trigger
              /\ \A before \in Cutoffs :
                    before >= trigger.next_trigger[1]
                    => \A agent_name \in {None, Some(""), Some(trigger.agent_name)} :
                          /\ IsDue(rows, trigger.id, agent_name, before)
                          /\ IsDue(after, trigger.id, agent_name, before)

(* a trigger that failed and is due now *)
C8_FailedAndDue ==
    \E i \in DOMAIN rows :
        /\ rows[i].last_error = Some("e1")
        /\ rows[i].updated_at > rows[i].created_at
        /\ IsDue(rows, i, Some(rows[i].agent_name), now)

(* C9: after mark_as_completed on an existing trigger no get_due_triggers *)
(* returns it, whatever the cutoff and the agent filter; a one-off        *)
(* trigger created with start_time one hour in the past is returned by    *)
(* get_due_triggers(before = now).                                        *)
C9_CompletedIsNeverDue ==
    /\ \A trigger_id \in 1..MaxId, agent_name \in Agents :
          Matches(rows, trigger_id, agent_name)
          => \A before \in Cutoffs, filter \in Filters :
                ~IsDue(MarkedTable(rows, trigger_id, agent_name, now),
                       trigger_id, filter, before)
    /\ \A a \in CreateArgs :
          (/\ a.start_time = Some(Stamp("aware", now - 1))
           /\ a.recurrence_rule = None
           /\ a.status = None)
          => /\ IsDue(CreatedTable(rows, nextId, a, now), nextId, None, now)
             /\ \A before \in Cutoffs, filter \in Filters :
                   ~IsDue(MarkedTable(CreatedTable(rows, nextId, a, now),
                                      nextId, a.agent_name, now),
                          nextId, filter, before)

(* a one-off trigger created with a start in the past, completed since *)
C9_PastOneOffCompleted ==
    \E i \in DOMAIN rows :
        /\ rows[i].recurrence_rule = None
        /\ rows[i].start_time[1] < rows[i].created_at
        /\ rows[i].status = "completed"
        /\ rows[i].next_trigger = None
        /\ rows[i].updated_at > rows[i].created_at

Marked(r) == r.status = "completed" /\ r.next_trigger = None /\ r.last_error = None
Unstamped(r) == [c \in DOMAIN r \ {"updated_at"} |-> r[c]]
Untouched(r) ==
    [c \in DOMAIN r \ {"updated_at", "status", "next_trigger", "last_error"} |-> r[c]]

(* C10: mark_as_completed sets status completed, next_trigger null and    *)
(* last_error null and changes no other field but updated_at; applied a   *)
(* second time, at any later time, it changes nothing but updated_at.     *)
C10_MarkAsCompletedIdempotent ==
    \A trigger_id \in 1..MaxId, agent_name \in Agents :
        Matches(rows, trigger_id, agent_name)
        => LET once == MarkedTable(rows, trigger_id, agent_name, now)
           IN /\ Marked(once[trigger_id])
              /\ Untouched(once[trigger_id]) = Untouched(rows[trigger_id])
              /\ \A t \in now..MaxTime :
                    Unstamped(MarkedTable(once, trigger_id, agent_name, t)[trigger_id])
                        = Unstamped(once[trigger_id])

(* a recurring trigger that had failed, completed with its schedule kept *)
C10_MarkedCompleted ==
    \E i \in DOMAIN rows :
        /\ Marked(rows[i])
        /\ RuleGiven(rows[i].recurrence_rule)
        /\ rows[i].payload = "p2"
        /\ rows[i].updated_at > rows[i].created_at

(* the one-off records a caller may hold of a stored trigger: the stored *)
(* record when it has no rule, and a record read before a rule was set    *)
OneOffRecords ==
    {r \in Stored : ~RuleGiven(r.recurrence_rule)}
    \cup {[r EXCEPT !.recurrence_rule = None] : r \in Stored}

(* C11: for a trigger with no recurrence rule,                            *)
(* schedule_next_occurrence(trigger, fired_at) leaves the store as        *)
(* mark_as_completed(trigger.id, trigger.agent_name) does, whatever       *)
(* fired_at is: status completed, next_trigger null, last_error null; a   *)
(* one-off trigger is never given a new next_trigger.                     *)
C11_OneOffScheduleIsMarkAsCompleted ==
    \A trigger \in OneOffRecords, fired_at \in Times :
        LET after == ScheduledTable(rows, trigger, fired_at, now)
        IN /\ after = MarkedTable(rows, trigger.id, trigger.agent_name, now)
           /\ Marked(after[trigger.id])
           /\ ScheduledRecord(rows, trigger, fired_at, now) = Some(after[trigger.id])

(* a one-off trigger that had failed, fired after its start and completed *)
C11_OneOffFiredAndCompleted ==
    \E i \in DOMAIN rows \cap DOMAIN fired :
        /\ rows[i].recurrence_rule = None
        /\ Marked(rows[i])
        /\ fired[i] > rows[i].start_time[1]
        /\ rows[i].updated_at >= fired[i]
        /\ rows[i].payload = "p2"

(* the occurrences of a rule later than t; none is later than the last   *)
(* cutoff unless the rule is counted out before it                        *)
LaterOccurrences(lines, t) == {o \in Cutoffs : o > t /\ IsOccurrence(lines, o)}

(* C12: for a recurring trigger, schedule_next_occurrence(trigger,        *)
(* fired_at) sets status completed and next_trigger null exactly when the *)
(* rule has no occurrence strictly after fired_at; otherwise it sets      *)
(* next_trigger to the first such occurrence, clears last_error and       *)
(* leaves status unchanged.                                               *)
C12_ExhaustedExactlyWhenNoLaterOccurrence ==
    \A trigger \in Stored, fired_at \in Times :
        RuleGiven(trigger.recurrence_rule)
        => LET after == ScheduledTable(rows, trigger, fired_at, now)[trigger.id]
               later == LaterOccurrences(trigger.recurrence_rule[1], fired_at)
           IN /\ after.last_error = None
              /\ IF later = {}
                 THEN after.status = "completed" /\ after.next_trigger = None
                 ELSE /\ after.next_trigger # None
                      /\ after.next_trigger[1] \in later
                      /\ \A o \in later : after.next_trigger[1] <= o
                      /\ after.status = trigger.status

(* a counted rule that fired at its last occurrence and was completed *)
C12_FiredAtLastOccurrence ==
    \E i \in DOMAIN rows \cap DOMAIN fired :
        /\ RuleGiven(rows[i].recurrence_rule)
        /\ IsOccurrence(rows[i].recurrence_rule[1], fired[i])
        /\ LaterOccurrences(rows[i].recurrence_rule[1], fired[i]) = {}
        /\ rows[i].status = "completed"
        /\ rows[i].next_trigger = None
        /\ rows[i].last_error = None
        /\ rows[i].updated_at >= fired[i]

(* C13: get_due_triggers(before, agent_name) returns exactly the stored  *)
(* triggers with status active, next_trigger non-null and next_trigger   *)
(* <= before, of that agent when an agent name is given and of all        *)
(* agents otherwise; a paused or completed trigger, or one with a null    *)
(* next_trigger, is never returned.                                       *)
C13_DueExactlyActiveAndNotAfterCutoff ==
    \A before \in Cutoffs, agent_name \in Filters :
        /\ fetch_due(rows, agent_name, before)
              = {r \in Stored :
                    /\ r.status = "active"
                    /\ r.next_trigger # None
                    /\ r.next_trigger[1] <= before
                    /\ (agent_name \in {None, Some("")} \/ r.agent_name = agent_name[1])}
        /\ \A r \in fetch_due(rows, agent_name, before) :
              r.status \notin {"paused", "completed"} /\ r.next_trigger # None

(* an active trigger that is not yet due now and is due at a later cutoff *)
C13_DueLaterNotNow ==
    \E i \in DOMAIN rows :
        /\ rows[i].status = "active"
        /\ rows[i].next_trigger # None
        /\ rows[i].next_trigger[1] > now
        /\ fetch_due(rows, None, now) = {}
        /\ fetch_due(rows, Some(rows[i].agent_name), rows[i].next_trigger[1]) = {rows[i]}
        /\ fetch_due(rows, Some("agent-b"), rows[i].next_trigger[1]) = {}

(* C14: no cross-agent access: for a trigger owned by agent A,           *)
(* fetch_one, update, update_trigger, mark_as_completed, clear_next_fire  *)
(* and list_triggers called with another agent name B treat it as not     *)
(* found (none, false, absent from the list) and leave every field of     *)
(* the trigger unchanged.                                                 *)
C14_NoCrossAgentAccess ==
    \A i \in DOMAIN rows, B \in Agents :
        B # rows[i].agent_name
        => /\ fetch_one(rows, i, B) = None
           /\ \A fields \in {MarkCompletedFields, ClearNextFireFields,
                             RecordFailureFields("e1")} :
                 StoreUpdate(rows, i, B, fields, now) = [updated |-> FALSE, table |-> rows]
           /\ \A a \in UpdateArgs :
                 /\ UpdatedTable(rows, i, B, a, now) = rows
                 /\ UpdatedRecord(rows, i, B, a, now) = [raised |-> FALSE, val |-> None]
           /\ MarkedTable(rows, i, B, now) = rows
           /\ ClearedTable(rows, i, B, now) = rows
           /\ ClearedRecord(rows, i, B, now) = None
           /\ \A l \in list_triggers(rows, B) : \A k \in 1..Len(l) : l[k].id # i

(* a trigger its owner has updated and lists, which the other agent       *)
(* neither finds nor lists                                                *)
C14_OwnedByOtherAgent ==
    \E i \in DOMAIN rows :
        /\ rows[i].agent_name = "agent-a"
        /\ rows[i].payload = "p2"
        /\ rows[i].status = "active"
        /\ rows[i].next_trigger # None
        /\ list_triggers(rows, "agent-a") = {<<rows[i]>>}
        /\ list_triggers(rows, "agent-b") = {<<>>}
        /\ fetch_one(rows, i, "agent-b") = None
        /\ fetch_one(rows, i, "agent-a") = Some(rows[i])

(* C15: when no stored trigger matches (id, agent_name), update_trigger, *)
(* clear_next_fire and schedule_next_occurrence return none,              *)
(* mark_as_completed and record_failure do nothing, none of them raises,  *)
(* and none of them creates or modifies a stored row.                     *)
C15_NotFoundIsANoOp ==
    /\ \A trigger_id \in 1..(MaxId + 1), agent_name \in Agents :
          ~Matches(rows, trigger_id, agent_name)
          => /\ \A a \in UpdateArgs \cup PollerUpdateArgs \cup ConcurrentArgs :
                   /\ UpdatedRecord(rows, trigger_id, agent_name, a, now)
                         = [raised |-> FALSE, val |-> None]
                   /\ UpdatedTable(rows, trigger_id, agent_name, a, now) = rows
             /\ ClearedRecord(rows, trigger_id, agent_name, now) = None
             /\ ClearedTable(rows, trigger_id, agent_name, now) = rows
             /\ MarkedTable(rows, trigger_id, agent_name, now) = rows
    /\ \A trigger \in polled :
          ~Matches(rows, trigger.id, trigger.agent_name)
          => \A fired_at \in Times, error \in Errors :
                /\ ScheduledRecord(rows, trigger, fired_at, now) = None
                /\ ScheduledTable(rows, trigger, fired_at, now) = rows
                /\ FailedTable(rows, trigger, error, now) = rows

(* the poller holds the record of a recurring trigger that was deleted    *)
(* after it fired once                                                    *)
C15_HeldRecordOfDeletedTrigger ==
    \E trigger \in polled :
        /\ trigger.id \notin DOMAIN rows
        /\ trigger.id \in DOMAIN fired
        /\ RuleGiven(trigger.recurrence_rule)
        /\ trigger.next_trigger # None
        /\ trigger.next_trigger[1] > fired[trigger.id]

Schedule(r) ==
    [c \in {"next_trigger", "recurrence_rule", "start_time", "timezone"} |-> r[c]]

(* C16: update_trigger called without recurrence_rule, start_time and     *)
(* timezone_name (only payload, status, last_error or clear_error given)  *)
(* leaves next_trigger, recurrence_rule, start_time and timezone of the   *)
(* trigger unchanged.                                                     *)
C16_ContentUpdateKeepsSchedule ==
    \A trigger \in Stored, a \in ContentArgs :
        LET after == UpdatedTable(rows, trigger.id, trigger.agent_name, a, now)
            r == UpdatedRecord(rows, trigger.id, trigger.agent_name, a, now)
        IN /\ Schedule(after[trigger.id]) = Schedule(trigger)
           /\ ~r.raised
           /\ r.val = Some(after[trigger.id])

(* a payload and status update on a recurring trigger whose next_trigger  *)
(* had moved past its start, at a time later than that next_trigger       *)
C16_UpdatedAfterReschedule ==
    \E i \in DOMAIN rows \cap DOMAIN fired :
        /\ rows[i].payload = "p2"
        /\ rows[i].status = "paused"
        /\ RuleGiven(rows[i].recurrence_rule)
        /\ rows[i].next_trigger # None
        /\ rows[i].next_trigger[1] > rows[i].start_time[1]
        /\ rows[i].next_trigger[1] < now
        /\ rows[i].updated_at = now

(* the arguments of the create_trigger call an update is compared with:  *)
(* the three inputs as merged from the call and the existing record       *)
CreateCall(existing, recurrence_rule, start_time, timezone_name) ==
    [agent_name |-> existing.agent_name,
     payload |-> existing.payload,
     recurrence_rule |-> recurrence_rule,
     start_time |-> start_time,
     timezone_name |-> timezone_name,
     status |-> None]

ExistingStart(existing) == Some(Stamp("aware", existing.start_time[1]))

(* every argument that is not None replaces the existing value *)
MergedAsClaimed(existing, a) ==
    CreateCall(existing,
               IF a.recurrence_rule # None THEN a.recurrence_rule
               ELSE existing.recurrence_rule,
               IF a.start_time # None THEN a.start_time ELSE ExistingStart(existing),
               IF a.timezone_name # None THEN a.timezone_name
               ELSE Some(existing.timezone))

(* an empty start_time or timezone_name stands for the existing value; an *)
(* empty recurrence_rule stands for no rule                               *)
MergedAsCoded(existing, a) ==
    CreateCall(existing,
               IF a.recurrence_rule # None THEN a.recurrence_rule
               ELSE existing.recurrence_rule,
               IF a.start_time # None /\ a.start_time[1] # EmptyStamp
               THEN a.start_time ELSE ExistingStart(existing),
               IF Truthy(a.timezone_name) THEN a.timezone_name
               ELSE Some(existing.timezone))

SameScheduleAsCreate(trigger, a, merged) ==
    LET c == CreateRecord(trigger.id, merged, now)
        u == UpdatedRecord(rows, trigger.id, trigger.agent_name, a, now)
        after == UpdatedTable(rows, trigger.id, trigger.agent_name, a, now)
    IN /\ u.raised = c.raised
       /\ ~c.raised => Schedule(after[trigger.id]) = Schedule(c.record)

(* C17 as claimed: when update_trigger supplies any of recurrence_rule,   *)
(* start_time or timezone_name, the stored start_time, timezone,          *)
(* recurrence_rule and next_trigger afterwards equal what create_trigger  *)
(* would store at the same now for the merged inputs, each input not      *)
(* supplied taking the existing start_time, timezone or recurrence_rule.  *)
C17_UpdateReschedulesAsCreate ==
    \A trigger \in Stored, a \in RescheduleArgs :
        SameScheduleAsCreate(trigger, a, MergedAsClaimed(trigger, a))

(* C17 as amended: the same, where a start_time or timezone_name that is  *)
(* not supplied or is supplied as the empty string takes the existing     *)
(* start_time or timezone, and a recurrence_rule that is not supplied     *)
(* takes the existing rule (an empty one stands for no rule).             *)
C17_UpdateReschedulesAsCreateOfMerged ==
    \A trigger \in Stored, a \in RescheduleArgs :
        SameScheduleAsCreate(trigger, a, MergedAsCoded(trigger, a))

(* a trigger in a zone with an offset whose rule was replaced later, its  *)
(* start_time kept and its next_trigger recomputed at the update          *)
C17_RuleReplacedStartKept ==
    \E i \in DOMAIN rows :
        /\ rows[i].timezone = "Africa/Lagos"
        /\ rows[i].recurrence_rule
              = Some(<<DtLine("Africa/Lagos", rows[i].start_time[1] + 1),
                       RuleLine(MaxInterval, 0)>>)
        /\ rows[i].updated_at > rows[i].created_at
        /\ rows[i].start_time[1] < rows[i].updated_at
        /\ rows[i].next_trigger # None
        /\ rows[i].next_trigger[1] >= rows[i].updated_at

(* C18 as claimed: if an update_trigger call changes no field of the     *)
(* trigger, it returns the existing record and the stored record,         *)
(* updated_at included, is unchanged.                                     *)
C18_UnchangedFieldsLeaveRecordUnstamped ==
    \A trigger \in Stored, a \in UpdateArgs :
        LET after == UpdatedTable(rows, trigger.id, trigger.agent_name, a, now)
            r == UpdatedRecord(rows, trigger.id, trigger.agent_name, a, now)
        IN (~r.raised /\ Unstamped(after[trigger.id]) = Unstamped(trigger))
           => after = rows /\ r.val = Some(trigger)

(* C18 as amended: an update_trigger call that supplies no field (every   *)
(* argument None and clear_error false) returns the existing record and   *)
(* leaves the stored record, updated_at included, unchanged; a call that  *)
(* supplies a field and does not raise sets updated_at to the time of the *)
(* call, also when the values it writes are the stored ones.              *)
C18_NoFieldSuppliedLeavesRecordUnstamped ==
    \A trigger \in Stored :
        /\ UpdatedTable(rows, trigger.id, trigger.agent_name, NoArgs, now) = rows
        /\ UpdatedRecord(rows, trigger.id, trigger.agent_name, NoArgs, now)
              = [raised |-> FALSE, val |-> Some(trigger)]
        /\ \A a \in UpdateArgs \ {NoArgs} :
              LET after == UpdatedTable(rows, trigger.id, trigger.agent_name, a, now)
                  r == UpdatedRecord(rows, trigger.id, trigger.agent_name, a, now)
              IN ~r.raised
                 => /\ after[trigger.id].updated_at = now
                    /\ r.val = Some(after[trigger.id])

(* a trigger updated after its creation and not since, which a stamp at   *)
(* the present time would change                                          *)
C18_LastStampedEarlier ==
    \E i \in DOMAIN rows :
        /\ rows[i].created_at < rows[i].updated_at
        /\ rows[i].updated_at < now
        /\ rows[i].payload = "p2"
        /\ rows[i].status = "active"

(* C19: created_at of a trigger never changes after create_trigger, and *)
(* every operation that modifies a stored trigger sets its updated_at to  *)
(* the time of the mutation, so that updated_at never decreases and is    *)
(* never earlier than created_at.                                         *)
C19_StampsNeverGoBack ==
    [][\A i \in DOMAIN rows' :
          /\ rows'[i].updated_at >= rows'[i].created_at
          /\ i \in DOMAIN rows
                => /\ rows'[i].created_at = rows[i].created_at
                   /\ rows'[i].updated_at >= rows[i].updated_at]_vars

GivenStart(a) ==
    IF a.start_time = None \/ a.start_time[1].kind = "empty" THEN now
    ELSE IF a.start_time[1].kind = "aware" THEN a.start_time[1].t
    ELSE IF a.timezone_name = Some("Africa/Lagos") THEN a.start_time[1].t - 1
    ELSE a.start_time[1].t

(* C21: create_trigger without a recurrence rule stores next_trigger      *)
(* equal to start_time, also when start_time is before now (never null,   *)
(* never replaced by now), with status active by default; such a          *)
(* past-dated active trigger is returned by the next                      *)
(* get_due_triggers(before = now).                                        *)
C21_OneOffFiresAtItsStart ==
    \A a \in {x \in OneOffCreateArgs : nextId <= MaxId} :
        LET c == CreateRecord(nextId, a, now)
            table == CreatedTable(rows, nextId, a, now)
        IN /\ ~c.raised
           /\ nextId \in DOMAIN table /\ table[nextId] = c.record
           /\ c.record.start_time = Some(GivenStart(a))
           /\ c.record.next_trigger = Some(GivenStart(a))
           /\ c.record.recurrence_rule = None
           /\ c.record.status = "active"
           /\ GivenStart(a) <= now
                 => \A agent_name \in {None, Some(""), Some(a.agent_name)} :
                       IsDue(table, nextId, agent_name, now)

(* a one-off trigger just created with a start before its creation, due *)
C21_CreatedPastDated ==
    \E i \in DOMAIN rows :
        /\ rows[i].recurrence_rule = None
        /\ rows[i].created_at = now /\ rows[i].updated_at = now
        /\ rows[i].start_time[1] < now
        /\ rows[i].next_trigger = rows[i].start_time
        /\ rows[i].status = "active"
        /\ IsDue(rows, i, None, now)

(* the rule of a create_trigger call anchored at the start it gives *)
Anchored(a) ==
    <<DtLine("Z", GivenStart(a))>>
    \o SelectSeq(a.recurrence_rule[1], LAMBDA l : l.k \in {"RRULE", "BARE"})

NeverDue(table, i) ==
    \A before \in Cutoffs, agent_name \in Filters : ~IsDue(table, i, agent_name, before)

(* the tables one call later, for every call that is not an update_trigger *)
(* giving a rule, a start or a zone; the poller passes a fired_at that is *)
(* not before the creation                                                *)
AfterOtherCall(table, i) ==
    LET r == table[i]
    IN {MarkedTable(table, i, r.agent_name, now),
        ClearedTable(table, i, r.agent_name, now)}
       \cup {FailedTable(table, r, error, now) : error \in Errors}
       \cup {ScheduledTable(table, r, fired_at, now) : fired_at \in now..MaxTime}
       \cup {UpdatedTable(table, i, r.agent_name, a, now) : a \in ContentArgs}

WithDefaults(a) ==
    [a EXCEPT !.timezone_name = IF @ \in {Some(z) : z \in UnknownZones}
                                THEN Some("UTC") ELSE @,
              !.status = IF @ \in {Some(st) : st \in UnknownStatuses}
                         THEN Some("active") ELSE @]

(* C23: create_trigger and update_trigger do not raise for an             *)
(* unresolvable timezone name or an unrecognized status value: the        *)
(* timezone is stored as UTC and the status as active, and every other    *)
(* field supplied in the same call is applied, as in the same call made   *)
(* with "UTC" and "active".                                               *)
C23_UnknownZoneAndStatusDegrade ==
    /\ \A a \in {x \in DegradedCreateArgs : nextId <= MaxId} :
          LET c == CreateRecord(nextId, a, now)
          IN /\ ~c.raised
             /\ c = CreateRecord(nextId, WithDefaults(a), now)
             /\ a.timezone_name \in {Some(z) : z \in UnknownZones}
                   => c.record.timezone = "UTC"
             /\ a.status \in {Some(st) : st \in UnknownStatuses}
                   => c.record.status = "active"
             /\ c.record.payload = a.payload
    /\ \A trigger \in Stored, a \in DegradedUpdateArgs :
          LET r == UpdatedRecord(rows, trigger.id, trigger.agent_name, a, now)
              after == UpdatedTable(rows, trigger.id, trigger.agent_name, a, now)
          IN /\ ~r.raised
             /\ r.val = Some(after[trigger.id])
             /\ after = UpdatedTable(rows, trigger.id, trigger.agent_name,
                                     WithDefaults(a), now)
             /\ a.timezone_name # None => after[trigger.id].timezone = "UTC"
             /\ a.status # None => after[trigger.id].status = "active"
             /\ a.payload # None => after[trigger.id].payload = a.payload[1]
             /\ a.last_error # None => after[trigger.id].last_error = a.last_error
             /\ after[trigger.id].updated_at = now

(* a trigger moved from a zone with an offset to UTC by an unknown zone   *)
(* name, and set active again by an unknown status                        *)
C23_DegradedToUtcAndActive ==
    \E i \in DOMAIN rows :
        /\ rows[i].timezone = "UTC"
        /\ rows[i].status = "active"
        /\ rows[i].start_time[1] # rows[i].created_at
        /\ rows[i].updated_at > rows[i].created_at
        /\ rows[i].payload = "p2"
        /\ rows[i].last_error = Some("e2")

(* C24: update_trigger with clear_error = true sets last_error to null   *)
(* whatever last_error argument comes with it; with clear_error = false   *)
(* and a last_error argument it stores that value; with neither it        *)
(* leaves last_error as it was.                                           *)
C24_ClearErrorWinsOverLastError ==
    \A trigger \in Stored, a \in ErrorArgs :
        LET r == UpdatedRecord(rows, trigger.id, trigger.agent_name, a, now)
            after == UpdatedTable(rows, trigger.id, trigger.agent_name, a, now)
        IN /\ ~r.raised
           /\ r.val = Some(after[trigger.id])
           /\ after[trigger.id].last_error =
                 IF a.clear_error THEN None
                 ELSE IF a.last_error # None THEN a.last_error
                 ELSE trigger.last_error

(* a trigger whose last_error was set by record_failure *)
C24_FailedTriggerToClear ==
    \E i \in DOMAIN rows :
        /\ rows[i].last_error \in {Some(e) : e \in Errors}
        /\ \E a \in ErrorArgs :
              /\ a.clear_error /\ a.last_error # None
              /\ UpdatedTable(rows, i, rows[i].agent_name, a, now)[i].last_error = None

(* C25: clear_next_fire(id, agent_name) sets next_trigger to null and    *)
(* leaves status, recurrence_rule, start_time, timezone, payload and      *)
(* last_error as they were; afterwards get_due_triggers returns the       *)
(* trigger for no cutoff.                                                 *)
C25_ClearNextFireOnlyNullsNextTrigger ==
    \A trigger \in Stored :
        LET after == ClearedTable(rows, trigger.id, trigger.agent_name, now)
            r == ClearedRecord(rows, trigger.id, trigger.agent_name, now)
        IN /\ DOMAIN after = DOMAIN rows
           /\ r = Some(after[trigger.id])
           /\ after[trigger.id] = [trigger EXCEPT !.next_trigger = None,
                                                  !.updated_at = now]
           /\ \A i \in DOMAIN rows \ {trigger.id} : after[i] = rows[i]
           /\ NeverDue(after, trigger.id)

(* a trigger that is due, and no longer is once its next fire is cleared *)
C25_DueTriggerSilenced ==
    \E i \in DOMAIN rows :
        /\ IsDue(rows, i, Some(rows[i].agent_name), now)
        /\ rows[i].recurrence_rule # None
        /\ ~IsDue(ClearedTable(rows, i, rows[i].agent_name, now), i,
                  Some(rows[i].agent_name), now)

Owned(agent_name) == {r \in Stored : r.agent_name = agent_name}

(* C26: list_triggers(agent_name) returns all and only the triggers owned *)
(* by agent_name, each once, every trigger with a next_trigger before     *)
(* every trigger without one, and the ones with a next_trigger in         *)
(* ascending next_trigger order.                                          *)
C26_ListedSoonestFirstNullsLast ==
    \A agent_name \in Agents \cup {"agent-c"} :
        /\ list_triggers(rows, agent_name) # {}
        /\ \A listed \in list_triggers(rows, agent_name) :
              /\ {listed[k] : k \in DOMAIN listed} = Owned(agent_name)
              /\ Len(listed) = Cardinality(Owned(agent_name))
              /\ \A j, k \in DOMAIN listed :
                    (j < k /\ listed[k].next_trigger # None) =>
                        /\ listed[j].next_trigger # None
                        /\ listed[j].next_trigger[1] <= listed[k].next_trigger[1]

(* an agent whose later trigger is due sooner than its earlier one, with  *)
(* a third that has no next_trigger and a trigger of another agent        *)
C26_ListedOutOfInsertionOrder ==
    \E agent_name \in Agents :
        /\ \E r1, r2 \in Owned(agent_name) :
              /\ r1.id < r2.id
              /\ r1.next_trigger # None /\ r2.next_trigger # None
              /\ r2.next_trigger[1] < r1.next_trigger[1]
        /\ \E r1, r2 \in Owned(agent_name) :
              r1.id < r2.id /\ r1.next_trigger = None /\ r2.next_trigger # None
        /\ Stored # Owned(agent_name)

(* the stored form the claim describes for a record *)
IsCanonicalRule(r) ==
    /\ r.recurrence_rule # None
    /\ LET lines == r.recurrence_rule[1]
       IN /\ Len(lines) >= 2
          /\ lines[1] = DtStartLine(r.start_time[1], r.timezone)
          /\ \A j \in 2..Len(lines) : lines[j].k # "DTSTART"
          /\ lines[2].k = "RRULE"

(* C27: for every recurrence input create_trigger or update_trigger       *)
(* accepts (a bare rule body or several lines, with or without DTSTART    *)
(* lines of the caller), the stored recurrence_rule has exactly one       *)
(* DTSTART line, which is the first line and the newly computed one, and  *)
(* the line directly after it starts with "RRULE:".                       *)
C27_StoredRuleIsCanonical ==
    /\ \A a \in {x \in AcceptedCreateArgs : nextId <= MaxId} :
          LET c == CreateRecord(nextId, a, now)
          IN ~c.raised => IsCanonicalRule(c.record)
    /\ \A trigger \in Stored, a \in AcceptedUpdateArgs :
          LET r == UpdatedRecord(rows, trigger.id, trigger.agent_name, a, now)
          IN ~r.raised => IsCanonicalRule(r.val[1])

(* the same with the name of the rule line in either letter case *)
IsCanonicalRuleInAnyCase(r) ==
    /\ r.recurrence_rule # None
    /\ LET lines == r.recurrence_rule[1]
       IN /\ Len(lines) >= 2
          /\ lines[1] = DtStartLine(r.start_time[1], r.timezone)
          /\ \A j \in 2..Len(lines) : lines[j].k # "DTSTART"
          /\ lines[2].k \in {"RRULE", "rrule"}
          /\ lines[2].k = "rrule" =>
                \E given \in AcceptedRules :
                    LowerRuleLine(lines[2].i, lines[2].c) = given[1]

(* C27 (as the code has it): for every accepted recurrence input the      *)
(* stored recurrence_rule has exactly one DTSTART line, the first line    *)
(* and the newly computed one, and the line directly after it starts with *)
(* the name RRULE: upper case when the service added it, in the letter    *)
(* case of the caller when the caller wrote it.                           *)
C27_StoredRuleIsCanonicalInAnyCase ==
    /\ \A a \in {x \in AcceptedCreateArgs : nextId <= MaxId} :
          LET c == CreateRecord(nextId, a, now)
          IN ~c.raised /\ IsCanonicalRuleInAnyCase(c.record)
    /\ \A trigger \in Stored, a \in AcceptedUpdateArgs :
          LET r == UpdatedRecord(rows, trigger.id, trigger.agent_name, a, now)
          IN ~r.raised /\ IsCanonicalRuleInAnyCase(r.val[1])

(* a stored rule whose DTSTART line replaced the one the caller gave *)
C27_CallerDtstartReplaced ==
    \E i \in DOMAIN rows :
        /\ rows[i].recurrence_rule # None
        /\ rows[i].recurrence_rule[1][2] = RuleLine(1, 2)
        /\ rows[i].recurrence_rule[1][1] # DtLine("Z", 1)
        /\ Len(rows[i].recurrence_rule[1]) = 2

InsideLock == {c \in Callers : ops[c].pc \in {"inside", "inserted", "done"}}

(* the table an operation leaves when it runs alone on the given table *)
Written(o, table) ==
    CASE o.op = "insert" -> (o.rowid :> [o.payload[1] EXCEPT !.id = o.rowid]) @@ table
      [] o.op = "update" ->
            StoreUpdate(table, o.trigger_id, o.agent_name, o.fields, o.t).table
      [] o.op = "clear_all" -> NoRows
      [] OTHER -> table

(* what an operation may return when it runs alone on the given table *)
Returned(o, table) ==
    CASE o.op = "insert" -> {o.rowid}
      [] o.op = "update" ->
            {StoreUpdate(table, o.trigger_id, o.agent_name, o.fields, o.t).updated}
      [] o.op = "clear_all" -> {None}
      [] o.op = "fetch_one" -> {fetch_one(table, o.trigger_id, o.agent_name)}
      [] o.op = "list_for_agent" -> list_for_agent(table, o.agent_name)
      [] o.op = "fetch_due" -> {fetch_due(table, Some(o.agent_name), o.t)}

(* C28: every store operation (insert, fetch_one, update, list_for_agent, *)
(* fetch_due, clear_all) is atomic with respect to the store operations   *)
(* of concurrent callers: at most one operation is inside the lock at a   *)
(* time, and each operation sees and leaves a table that results from a   *)
(* whole number of completed operations: between its taking the lock and  *)
(* its release nothing but its own statements changes the table, and what *)
(* it returns is what it returns when run alone on the table it found.    *)
C28_StoreOperationsAreAtomic ==
    /\ Cardinality(InsideLock) <= 1
    /\ lock <=> InsideLock # {}
    /\ \A c \in InsideLock :
          LET o == ops[c]
          IN /\ o.pc = "inside" => rows = o.entry
             /\ o.pc \in {"inserted", "done"} => rows = Written(o, o.entry)
             /\ o.pc = "inserted" => o.rowid \notin DOMAIN o.entry
             /\ o.pc = "done" => o.result \in Returned(o, o.entry)

(* a caller inside the lock with its statement done, while the other      *)
(* caller waits for the lock with a write to the row just read            *)
C28_WriterWaitsForReader ==
    \E c, d \in Callers :
        /\ ops[c].pc = "done" /\ ops[c].op = "fetch_one"
        /\ ops[c].result # None
        /\ ops[d].pc = "waiting" /\ ops[d].op = "update"
        /\ ops[d].trigger_id = ops[c].trigger_id

(* the update_trigger calls between their read and their write whose    *)
(* write carries a next_trigger                                           *)
Rescheduling ==
    {c \in Callers : upd[c].busy /\ "next_trigger" \in DOMAIN upd[c].fields}

(* C29: two update_trigger calls on the same trigger can interleave, both *)
(* reading the record before either writes, and the write of a call then  *)
(* stores the next_trigger that call computed from the record it read,    *)
(* whatever the other call has stored since: the last writer wins and     *)
(* neither call raises.                                                   *)
C29_LastWriterWins ==
    \A c \in Rescheduling :
        LET u == upd[c]
        IN /\ \E a \in ConcurrentArgs :
                 LET f == UpdateFields(u.existing[1], a, u.t)
                 IN ~f.raised /\ f.fields = u.fields
           /\ \A stamp \in u.t..now :
                 LET after == UpdateWritten(rows, u, stamp)
                 IN u.trigger_id \in DOMAIN rows =>
                       /\ after[u.trigger_id].next_trigger = u.fields.next_trigger
                       /\ after[u.trigger_id].recurrence_rule = u.fields.recurrence_rule
                       /\ after[u.trigger_id].updated_at = stamp

(* one call has read the record and not yet written, the other call read  *)
(* the same record and has already stored another next_trigger            *)
C29_StaleWritePending ==
    \E c \in Rescheduling :
        LET u == upd[c]
        IN /\ u.trigger_id \in DOMAIN rows
           /\ rows[u.trigger_id] # u.existing[1]
           /\ rows[u.trigger_id].next_trigger # u.existing[1].next_trigger
           /\ rows[u.trigger_id].next_trigger # u.fields.next_trigger
           /\ \A d \in Callers \ {c} : ~upd[d].busy

(* o is the first occurrence after t of the stored rule of record r *)
FirstOccurrenceAfter(r, t, o) ==
    /\ RuleGiven(r.recurrence_rule)
    /\ o > t
    /\ IsOccurrence(r.recurrence_rule[1], o)
    /\ \A e \in Cutoffs : (e > t /\ IsOccurrence(r.recurrence_rule[1], e)) => o <= e

(* C30: schedule_next_occurrence computes the new next_trigger from the   *)
(* recurrence_rule and timezone stored for the trigger at the time of the *)
(* call: when it leaves a non-null next_trigger, that value is the first  *)
(* occurrence after fired_at of the rule stored by then, also when        *)
(* update_trigger changed the rule or the timezone between the poller's   *)
(* get_due_triggers and its schedule_next_occurrence.                     *)
C30_ScheduleUsesStoredRule ==
    \A trigger \in polled :
        Matches(rows, trigger.id, trigger.agent_name) =>
            LET r == ScheduledRecord(rows, trigger, now, now)[1]
            IN r.next_trigger # None =>
                  FirstOccurrenceAfter(rows[trigger.id], now, r.next_trigger[1])

IsOneOff(i) == i \in DOMAIN rows /\ ~RuleGiven(rows[i].recurrence_rule)

(* a rule with finitely many occurrences: every rule line has a COUNT *)
IsFinite(i) ==
    /\ i \in DOMAIN rows
    /\ RuleGiven(rows[i].recurrence_rule)
    /\ \A j \in DOMAIN rows[i].recurrence_rule[1] :
          rows[i].recurrence_rule[1][j].k = "DTSTART" \/ rows[i].recurrence_rule[1][j].c > 0

(* active with a next_trigger the clock of the model reaches *)
IsPending(i) ==
    /\ i \in DOMAIN rows
    /\ rows[i].status = "active"
    /\ rows[i].next_trigger # None
    /\ rows[i].next_trigger[1] <= MaxTime

IsCompleted(i) == i \in DOMAIN rows /\ rows[i].status = "completed"
IsHeld(i) == \E trigger \in polled : trigger.id = i

(* C31: under a weakly fair sequential poller that polls with advancing   *)
(* now, always dispatches with success and then calls                     *)
(* schedule_next_occurrence (recurring) or mark_as_completed (one-off),   *)
(* every active trigger with a next_trigger is eventually returned as     *)
(* due, every one-off trigger eventually reaches completed, and every     *)
(* recurring trigger whose rule has finitely many occurrences eventually  *)
(* reaches completed.                                                     *)
C31_EveryTriggerServed ==
    \A i \in 1..MaxId :
        /\ IsPending(i) ~> IsHeld(i)
        /\ IsOneOff(i) ~> IsCompleted(i)
        /\ IsFinite(i) ~> IsCompleted(i)

(* C31 (as the code has it): the same for the triggers the poller can     *)
(* see: every active trigger with a next_trigger is eventually returned   *)
(* as due, and every active one-off or finite recurring trigger that has  *)
(* a next_trigger eventually reaches completed.  A paused trigger, and a  *)
(* trigger created after the last occurrence of its rule (active, without *)
(* next_trigger), is never returned and stays as it is.                   *)
C31_EveryPendingTriggerServed ==
    \A i \in 1..MaxId :
        /\ IsPending(i) ~> IsHeld(i)
        /\ (IsOneOff(i) /\ IsPending(i)) ~> IsCompleted(i)
        /\ (IsFinite(i) /\ IsPending(i)) ~> IsCompleted(i)

(* a recurring trigger completed by the poller at its last occurrence *)
C31_FiniteRuleRunOut ==
    \E i \in DOMAIN rows :
        /\ IsFinite(i) /\ IsCompleted(i)
        /\ rows[i].next_trigger = None
        /\ i \in DOMAIN fired
        /\ fired[i] >= 1
        /\ polled = {}

(* the tables in which the trigger of a held record has become           *)
(* completed since the poller read it: through update_trigger (the stored *)
(* row) or through a mark_as_completed made now                           *)
CompletedSincePolled(trigger) ==
    {table \in {rows, MarkedTable(rows, trigger.id, trigger.agent_name, now)} :
        /\ Matches(table, trigger.id, trigger.agent_name)
        /\ table[trigger.id].status = "completed"}

(* C32: a trigger that became completed (mark_as_completed or             *)
(* update_trigger) after the poller read it is not made due again by that *)
(* poller: a later schedule_next_occurrence or record_failure with the    *)
(* stale record leaves it completed with next_trigger null.               *)
C32_StaleRecordLeavesCompleted ==
    \A trigger \in polled : \A table \in CompletedSincePolled(trigger) :
        \A after \in {ScheduledTable(table, trigger, now, now)}
                     \cup {FailedTable(table, trigger, error, now) : error \in Errors} :
            /\ after[trigger.id].status = "completed"
            /\ after[trigger.id].next_trigger = None
            /\ NeverDue(after, trigger.id)

PauseArgs == {[NoArgs EXCEPT !.status = Some(st)] : st \in {"paused", "PAUSED"}}
ResumeArgs == {[NoArgs EXCEPT !.status = Some("active")]}

(* C33: update_trigger(status = 'paused') takes the trigger out of every  *)
(* get_due_triggers result and leaves next_trigger, recurrence_rule and   *)
(* start_time as they were; a later update_trigger(status = 'active')     *)
(* brings it back with the same next_trigger, not recomputed, so that a   *)
(* trigger that became overdue while paused is returned by the first poll *)
(* after the resume.                                                      *)
C33_PauseAndResumeKeepSchedule ==
    \A trigger \in Stored, p \in PauseArgs, r \in ResumeArgs, resumed_at \in now..MaxTime :
        LET paused == UpdatedTable(rows, trigger.id, trigger.agent_name, p, now)
            resumed == UpdatedTable(paused, trigger.id, trigger.agent_name, r, resumed_at)
        IN /\ paused[trigger.id] = [trigger EXCEPT !.status = "paused", !.updated_at = now]
           /\ NeverDue(paused, trigger.id)
           /\ resumed[trigger.id] =
                 [trigger EXCEPT !.status = "active", !.updated_at = resumed_at]
           /\ (trigger.next_trigger # None /\ trigger.next_trigger[1] <= resumed_at)
                 => /\ IsDue(resumed, trigger.id, None, resumed_at)
                    /\ IsDue(resumed, trigger.id, Some(trigger.agent_name), resumed_at)

(* a paused recurring trigger whose next_trigger has passed *)
C33_OverdueWhilePaused ==
    \E i \in DOMAIN rows :
        /\ rows[i].status = "paused"
        /\ rows[i].updated_at > rows[i].created_at
        /\ RuleGiven(rows[i].recurrence_rule)
        /\ rows[i].next_trigger # None
        /\ rows[i].next_trigger[1] < now

KeepingArgs ==
    {[NoArgs EXCEPT !.status = Some("completed")],
     [NoArgs EXCEPT !.recurrence_rule = Some(<<BareLine(1, 0)>>)],
     [NoArgs EXCEPT !.recurrence_rule = Some(<<DtLine("Z", 0)>>)]}

(* the tables one call later, for every call but clear_all, made on the   *)
(* trigger by its agent, and a call made by another agent                 *)
AfterAnyCallOn(trigger) ==
    {MarkedTable(rows, trigger.id, trigger.agent_name, now),
     ClearedTable(rows, trigger.id, trigger.agent_name, now),
     ScheduledTable(rows, trigger, now, now),
     FailedTable(rows, trigger, "e1", now),
     CreatedTable(rows, nextId, CHOOSE a \in ListedCreateArgs : TRUE, now)}
    \cup {UpdatedTable(rows, trigger.id, trigger.agent_name, a, now) : a \in KeepingArgs}
    \cup {MarkedTable(rows, trigger.id, agent_name, now) :
            agent_name \in Agents \ {trigger.agent_name}}

(* C34: no operation other than clear_all removes a trigger: after any    *)
(* create_trigger, update_trigger, mark_as_completed,                     *)
(* schedule_next_occurrence, record_failure or clear_next_fire every      *)
(* trigger is still stored under its id for its agent, and list_triggers  *)
(* of an agent returns every stored trigger of that agent; after          *)
(* clear_all, list_triggers returns the empty list for every agent and    *)
(* get_due_triggers returns nothing.                                      *)
C34_OnlyClearAllRemoves ==
    /\ \A trigger \in Stored : \A after \in AfterAnyCallOn(trigger) :
          \A i \in DOMAIN rows :
              /\ i \in DOMAIN after
              /\ after[i].id = i
              /\ after[i].agent_name = rows[i].agent_name
    /\ \A agent_name \in Agents : \A listed \in list_triggers(rows, agent_name) :
          \A i \in DOMAIN rows :
              rows[i].agent_name = agent_name => \E k \in DOMAIN listed : listed[k] = rows[i]
    /\ \A agent_name \in Agents :
          list_triggers(AllCleared(rows), agent_name) = {<<>>}
    /\ \A before \in Cutoffs, agent_name \in Filters :
          fetch_due(AllCleared(rows), agent_name, before) = {}

(* triggers of both agents created after a clear_all, one of them        *)
(* silenced since, all still stored                                       *)
C34_KeptSinceLastClearAll ==
    /\ 1 \notin DOMAIN rows
    /\ \E i, j \in DOMAIN rows : rows[i].agent_name # rows[j].agent_name
    /\ \E i \in DOMAIN rows : rows[i].next_trigger = None
    /\ DOMAIN rows = 2..(nextId - 1)

(* C35: when the trigger is removed (clear_all) between the initial     *)
(* fetch of update_trigger and its store update, update_trigger returns   *)
(* none, not a record of a trigger that no longer exists, and the store   *)
(* stays without that trigger.                                            *)
C35_UpdateOfRemovedReturnsNone ==
    \A c \in Callers :
        (upd[c].busy /\ ~Matches(rows, upd[c].trigger_id, upd[c].agent_name)) =>
            \A stamp \in upd[c].t..now :
                /\ UpdateReturned(rows, upd[c], stamp) = None
                /\ upd[c].trigger_id \notin DOMAIN UpdateWritten(rows, upd[c], stamp)

(* the tables one call later for the calls that name a trigger by its   *)
(* id and agent, or by a record                                           *)
AfterCallNaming(trigger_id, agent_name) ==
    {MarkedTable(rows, trigger_id, agent_name, now),
     ClearedTable(rows, trigger_id, agent_name, now)}
    \cup {UpdatedTable(rows, trigger_id, agent_name, a, now) : a \in FramedUpdateArgs}

AfterCallWith(trigger) ==
    {ScheduledTable(rows, trigger, now, now), FailedTable(rows, trigger, "e1", now)}

OnlyChanges(after, trigger_id, agent_name) ==
    /\ DOMAIN after = DOMAIN rows
    /\ \A i \in DOMAIN rows :
          /\ after[i].id = rows[i].id
          /\ after[i].agent_name = rows[i].agent_name
          /\ (i # trigger_id \/ rows[i].agent_name # agent_name) => after[i] = rows[i]

(* C36: every service operation other than clear_all changes at most the  *)
(* one trigger its (id, agent_name) argument identifies, never that       *)
(* trigger's id or agent_name, and no field of any other trigger;         *)
(* list_triggers and get_due_triggers change no stored state (a step that *)
(* hands the poller a record leaves the table and the id counter alone).  *)
C36_OnlyTheNamedTriggerChanges ==
    /\ [](/\ \A trigger_id \in 1..(MaxId + 1), agent_name \in Agents :
                \A after \in AfterCallNaming(trigger_id, agent_name) :
                    OnlyChanges(after, trigger_id, agent_name)
          /\ \A trigger \in Stored \cup polled :
                \A after \in AfterCallWith(trigger) :
                    OnlyChanges(after, trigger.id, trigger.agent_name)
          /\ \A a \in FramedCreateArgs, i \in DOMAIN rows :
                CreatedTable(rows, nextId, a, now)[i] = rows[i])
    /\ [][polled' \ polled # {} => (rows' = rows /\ nextId' = nextId)]_vars

(* two triggers of one agent, the first changed by an update and the      *)
(* second as it was created, while the poller holds a record              *)
C36_OneOfTwoChanged ==
    /\ DOMAIN rows = {1, 2}
    /\ rows[1].agent_name = rows[2].agent_name
    /\ rows[1].payload = "p2"
    /\ rows[2].payload = "p1"
    /\ rows[1].next_trigger # rows[2].next_trigger
    /\ polled # {}

(* update_trigger calls that give only the current zone of the trigger, *)
(* or only its current start_time                                         *)
SameScheduleArgs(trigger) ==
    {[NoArgs EXCEPT !.timezone_name = Some(trigger.timezone)],
     [NoArgs EXCEPT !.start_time = Some(Stamp("aware", trigger.start_time[1]))],
     [NoArgs EXCEPT !.start_time =
         Some(Stamp("naive", trigger.start_time[1] + Offset(trigger.timezone)))]}

(* C37: canonicalization is idempotent: an update_trigger that gives only *)
(* the current timezone name or the current start_time of a recurring     *)
(* trigger stores the same recurrence_rule text, start_time and timezone  *)
(* as before.                                                             *)
C37_CanonicalizationIsIdempotent ==
    \A trigger \in {r \in Stored : RuleGiven(r.recurrence_rule)} :
        \A a \in SameScheduleArgs(trigger) :
            LET r == UpdatedRecord(rows, trigger.id, trigger.agent_name, a, now)
                after == UpdatedTable(rows, trigger.id, trigger.agent_name, a, now)
            IN /\ ~r.raised
               /\ r.val = Some(after[trigger.id])
               /\ after[trigger.id].recurrence_rule = trigger.recurrence_rule
               /\ after[trigger.id].start_time = trigger.start_time
               /\ after[trigger.id].timezone = trigger.timezone
               /\ after[trigger.id].updated_at = now

(* a recurring trigger moved to a zone with an offset, its rule anchored  *)
(* in that zone at a start other than its creation                        *)
C37_RuleAnchoredInZone ==
    \E i \in DOMAIN rows :
        /\ RuleGiven(rows[i].recurrence_rule)
        /\ rows[i].timezone = "Africa/Lagos"
        /\ rows[i].recurrence_rule[1][1].tzid = "Africa/Lagos"
        /\ rows[i].start_time[1] # rows[i].created_at
        /\ Len(rows[i].recurrence_rule[1]) >= 2

(* the create_trigger calls that have read their row back *)
CreatesReturned == {c \in Callers : ops[c].pc = "returned"}

(* the create_trigger calls between their insert and their return *)
CreatesUnderWay == {c \in Callers : ops[c].pc \in {"inserted", "returned"}}

(* C38 (as stated): trigger ids are unique and never reused, and every    *)
(* create_trigger, run concurrently with other calls or after clear_all,  *)
(* returns the record it has just inserted, with the same agent_name and  *)
(* payload.                                                               *)
C38_CreateReturnsTheInsertedRecord ==
    /\ \A c \in CreatesUnderWay : ops[c].id < nextId
    /\ \A c \in CreatesReturned :
        /\ ops[c].created # None
        /\ ops[c].created[1].id = ops[c].id
        /\ ops[c].created[1].agent_name = ops[c].record.agent_name
        /\ ops[c].created[1].payload = ops[c].record.payload

(* C38 (amended): trigger ids are unique and never reused: every insert   *)
(* takes an id larger than every id given out before, also when creates   *)
(* interleave and after clear_all. A create_trigger that returns, returns *)
(* the row stored under the id of its insert, with that id and the same   *)
(* agent_name; it is the inserted record when no other call wrote the row *)
(* between the insert and the read, and carries the payload of an         *)
(* update_trigger that ran in between. When clear_all ran in between,     *)
(* create_trigger raises and returns no record.                           *)
C38_IdsNeverReused ==
    /\ [](/\ \A i \in DOMAIN rows : i < nextId /\ rows[i].id = i
          /\ \A c \in CreatesUnderWay : ops[c].id < nextId /\ ops[c].record.id = ops[c].id
          /\ \A c, d \in CreatesUnderWay : c # d => ops[c].id # ops[d].id
          /\ \A c \in CreatesUnderWay :
                ops[c].id \in DOMAIN rows =>
                    /\ rows[ops[c].id].agent_name = ops[c].record.agent_name
                    /\ rows[ops[c].id].created_at = ops[c].record.created_at
                    /\ rows[ops[c].id].payload \in {ops[c].record.payload, "p2"}
          /\ \A c \in CreatesReturned :
                ops[c].created # None =>
                    /\ ops[c].created[1].id = ops[c].id
                    /\ ops[c].created[1].agent_name = ops[c].record.agent_name
                    /\ ops[c].created[1].created_at = ops[c].record.created_at
                    /\ ops[c].created[1].payload \in {ops[c].record.payload, "p2"})
    /\ [][/\ nextId' >= nextId
          /\ \A i \in DOMAIN rows' \ DOMAIN rows : i >= nextId /\ i < nextId'
          /\ \A c \in Callers :
                (ops[c].pc = "inserted" /\ ops'[c].pc = "returned") =>
                    /\ (ops[c].id \in DOMAIN rows <=> ops'[c].created # None)
                    /\ (ops[c].id \in DOMAIN rows /\ rows[ops[c].id] = ops[c].record
                            => ops'[c].created = Some(ops[c].record))]_vars

(* two creates under way at once after a clear_all that removed trigger  *)
(* 1: both have later ids, and the one that has read its row back holds   *)
(* the record it inserted                                                 *)
C38_CreatedAfterClearAll ==
    \E c, d \in Callers :
        /\ c # d
        /\ ops[c].pc = "returned"
        /\ ops[c].created = Some(ops[c].record)
        /\ ops[d].pc = "inserted"
        /\ DOMAIN rows = {ops[c].id, ops[d].id}
        /\ 1 \notin DOMAIN rows
        /\ nextId = Max(ops[c].id, ops[d].id) + 1

====
